---- MODULE Spec2Model ----
(***************************************************************************)
(* Model of the instance / profile assignment engine of opencode-sfx.      *)
(* Every instance is one OS process; the processes share two JSON          *)
(* documents, instances.json (the Instance Table) and tty-profiles.json    *)
(* (the TTY->Profile Mapping), which they read and write without locking.  *)
(* One action is one uninterrupted stretch of a process between two        *)
(* accesses to a shared file.                                              *)
(***************************************************************************)
EXTENDS Integers, FiniteSets, Sequences, TLC

(* ---------------------------------------------------------------------- *)
(* Bounds of the model                                                     *)
(* ---------------------------------------------------------------------- *)
NumPids == 2
MaxStarts == 3
MaxTicks == 1
MaxRecalls == 1

(* ---------------------------------------------------------------------- *)
(* Program constants                                                       *)
(* ---------------------------------------------------------------------- *)
\* const maxAge = 24 * 60 * 60 * 1000 (milliseconds)
maxAge == 24 * 60 * 60 * 1000

None == "none"

Pids == 1 .. NumPids
\* Keys a theme may be named by; the Theme Store holds a subset of them.
ThemeKeys == {"marine", "ghost", "goliath"}
\* Values of OCSFX_PROFILE and of the .ocsfx file (None: unset / no file).
EnvValues == {None, "ghost"}
FileValues == {None, "marine", "goliath"}
\* Results of getTtyIdentifier() in the terminals the processes run in.
TtyIds == {"term:A", "term:B"}
\* The clock advances by 24 hours or by 24 hours and one second.
Deltas == {maxAge, maxAge + 1000}

VARIABLES
  themes,       \* getThemeNames(): keys of the Theme Store
  now,          \* Date.now(), milliseconds
  ticks,        \* number of clock advances so far
  instances,    \* instances.json: pid -> [theme, startedAt]
  ttyProfiles,  \* tty-profiles.json: tty identifier -> theme key
  pc,           \* position of each process
  envProfile,   \* process.env[ENV_PROFILE] as the call in flight sees it
  dirProfile,   \* local dirProfile of determineProfile (.ocsfx as read)
  currentTty,   \* getTtyIdentifier() as the call in flight sees it
  state,        \* local `state` of assignThemeToInstance / removeInstance
  dstate,       \* local `state` of determineProfile, after the cleanup
  ttyProfile,   \* value returned by getTtyProfile in determineProfile
  profile,      \* result of determineProfile: [profile, source]
  data,         \* local `data` of setTtyProfile
  result,       \* value returned by the last assignThemeToInstance call
  starts,       \* number of processes started so far
  recalls,      \* number of further calls made so far
  overlap,      \* pairs of running processes whose calls overlapped in time
  mapped,       \* tty-profiles.json entry of the caller's terminal when its call began
  TMUX,         \* process.env.TMUX is set
  TMUX_PANE,    \* process.env.TMUX_PANE is set
  cachedWindowId, \* WezTerm window id captured at startup, or None
  hasAlert,     \* module variable hasAlert
  windowName,   \* name of the tmux window of the pane, a sequence of characters
  nameBefore,   \* window name read by the setTmuxAlert that set the alert
  apc,          \* position of the plugin instance in the handler it runs
  handler,      \* the handler in progress, or the last one run
  guard,        \* what isPaneActive reported to the alert-clearing check
  gate,         \* what isPaneActive reported to the gated playSound
  log,          \* external commands run by the handler, in order
  frontmost,    \* the terminal window of the instance is the frontmost window
  paneActive,   \* tmux: session attached, window active and pane active
  world,        \* what the focus probes would answer, and which of them fail
  ttyFile,      \* tty-profiles.json as a document: missing, text, or JSON
  instFile,     \* instances.json as a document
  outcome,      \* the last storage call: operation, whether it threw, value
  themesDir,    \* the themes/ directory: whether it exists, and its files
  cacheFile,    \* .cache/themes.json as a document
  cachedThemes, \* module variable cachedThemes of the Theme Store
  firstLoad,    \* map returned by the first loadThemes or the last reloadThemes
  clock,        \* Date.now() as the Theme Store sees it
  plugin,       \* the plugin function of one process: position, current theme
                \* key, terminal, hooks returned, handlers installed, sounds
  ident,        \* getTtyIdentifier: the environment and the identifiers returned
  hook          \* the event handler: the event in hand and the sounds requested

vars == <<themes, now, ticks, instances, ttyProfiles, pc, envProfile,
          dirProfile, currentTty, state, dstate, ttyProfile,
          profile, data, result, starts, recalls, overlap, mapped,
          TMUX, TMUX_PANE, cachedWindowId, hasAlert, windowName, nameBefore,
          apc, handler, guard, gate, log, frontmost, paneActive,
          world, ttyFile, instFile, outcome,
          themesDir, cacheFile, cachedThemes, firstLoad, clock, plugin,
          ident, hook>>

\* the state of the instance / profile assignment
assignVars == <<themes, now, ticks, instances, ttyProfiles, pc, envProfile,
                dirProfile, currentTty, state, dstate, ttyProfile,
                profile, data, result, starts, recalls, overlap, mapped>>

\* the state of focus detection and of the tmux alert of one instance
alertVars == <<TMUX, TMUX_PANE, cachedWindowId, hasAlert, windowName,
               nameBefore, apc, handler, guard, gate, log, frontmost,
               paneActive>>

\* the state of the models that stand beside the two above: the focus probes
\* and the two storage files as documents
\* the state of the Theme Store of one process
storeVars == <<themesDir, cacheFile, cachedThemes, firstLoad, clock>>

\* the state of the terminal identification and of the event handler
sideVars == <<ident, hook>>

otherVars == <<world, ttyFile, instFile, outcome, storeVars, plugin, sideVars>>

(* ---------------------------------------------------------------------- *)
(* Pure helpers                                                            *)
(* ---------------------------------------------------------------------- *)
EmptyTable == [q \in {} |-> None]
NoResult == [theme |-> None, source |-> None]

\* new Date(ms).toISOString(): "....:SS.mmmZ", seconds and milliseconds
toISOString(ms) == <<ms \div 1000, ms % 1000>>

\* new Date(iso).getTime()
getTime(iso) == iso[1] * 1000 + iso[2]

\* table with the entry of pid removed (delete state.instances[pid])
Delete(st, pid) == [q \in DOMAIN st \ {pid} |-> st[q]]

\* table with the entry of pid set (state.instances[pid] = rec)
Put(st, pid, rec) == [q \in DOMAIN st \cup {pid} |-> IF q = pid THEN rec ELSE st[q]]

\* data.profiles[tty] || null
Lookup(profiles, tty) == IF tty \in DOMAIN profiles THEN profiles[tty] ELSE None

\* cleanupStaleInstances that also drops a record of exactly 24 hours
cleanupAtLeast(st, t) ==
  [q \in {r \in DOMAIN st : ~(t - getTime(st[r].startedAt) >= maxAge)} |-> st[q]]

\* cleanupStaleInstances with the age test inverted (keeps the old records)
cleanupInverted(st, t) ==
  [q \in {r \in DOMAIN st : t - getTime(st[r].startedAt) > maxAge} |-> st[q]]

cleanupStaleInstances(st, t) ==
  [q \in {r \in DOMAIN st : ~(t - getTime(st[r].startedAt) > maxAge)} |-> st[q]]

\* usedThemes reading a field the records do not have
usedThemesNoField(st) == {}

usedThemes(st) == {st[q].theme : q \in DOMAIN st}

\* getAvailableThemes without the filter on the themes in use
getAvailableThemesUnfiltered(st, allThemes) == allThemes

getAvailableThemes(st, allThemes) ==
  LET available == {t \in allThemes : t \notin usedThemes(st)}
  IN IF available # {} THEN available ELSE allThemes

\* the tier test without the look-up in the Theme Store
namesUnchecked(x, allThemes) == x # None

\* `x && allThemes.includes(x)`: the test each override tier applies
names(x, allThemes) == x # None /\ x \in allThemes

\* the tiers with the .ocsfx file consulted before the environment
resolveOverrideFileFirst(e, f, t, allThemes) ==
  IF names(f, allThemes) THEN [theme |-> f, source |-> "file"]
  ELSE IF names(e, allThemes) THEN [theme |-> e, source |-> "env"]
  ELSE IF names(t, allThemes) THEN [theme |-> t, source |-> "tty"]
  ELSE NoResult

\* the tiers without the TTY mapping
resolveOverrideNoTty(e, f, t, allThemes) ==
  IF names(e, allThemes) THEN [theme |-> e, source |-> "env"]
  ELSE IF names(f, allThemes) THEN [theme |-> f, source |-> "file"]
  ELSE NoResult

\* tiers 1-3 of determineProfile for the values e (env), f (.ocsfx) and
\* t (TTY mapping); source None: no tier matched, go on to random selection
resolveOverride(e, f, t, allThemes) ==
  IF names(e, allThemes) THEN [theme |-> e, source |-> "env"]
  ELSE IF names(f, allThemes) THEN [theme |-> f, source |-> "file"]
  ELSE IF names(t, allThemes) THEN [theme |-> t, source |-> "tty"]
  ELSE NoResult

\* positions inside an assignThemeToInstance call
CallPcs == {"determine", "random", "setTty", "saveTty", "register"}
inCall(p) == pc[p] \in CallPcs

(* ---------------------------------------------------------------------- *)
(* Initial state                                                           *)
(* ---------------------------------------------------------------------- *)
\* The Theme Store and tty-profiles.json a run starts from: a fresh install
\* with two themes, and an install whose mapping names a theme ("ghost")
\* whose definition file has since been deleted.
InitFiles ==
  <<[themes |-> {"marine", "ghost"}, ttyProfiles |-> [t \in {} |-> None]],
    [themes |-> {"marine"}, ttyProfiles |-> [t \in {"term:A"} |-> "ghost"]]>>

\* the Theme Store of the process is not looked at: themes is all that the
\* rest of the program sees of it
StoreOff ==
  /\ themesDir = [exists |-> FALSE, files |-> EmptyTable]
  /\ cacheFile = [kind |-> "missing", version |-> 0, buildTime |-> 0,
                  themes |-> EmptyTable]
  /\ cachedThemes = [has |-> FALSE, themes |-> EmptyTable]
  /\ firstLoad = [has |-> FALSE, themes |-> EmptyTable]
  /\ clock = 0

\* the plugin function of the process that is followed has not run; no
\* identifier is asked for and no event is delivered
PluginOff ==
  /\ plugin = [pos |-> "off", currentThemeKey |-> None, tty |-> None,
               hooks |-> {}, handlers |-> {}, played |-> {}]
  /\ ident = [env |-> None, ids |-> <<>>]
  /\ hook = [pos |-> "off"]

\* no probe, storage file or Theme Store is looked at
OtherOff ==
  /\ world = [faults |-> {}]
  /\ ttyFile = [kind |-> "missing", key |-> None, entries |-> <<>>]
  /\ instFile = [kind |-> "missing", key |-> None, entries |-> <<>>]
  /\ outcome = [op |-> None, threw |-> FALSE, value |-> None]
  /\ StoreOff
  /\ PluginOff

\* the instance whose alert is followed has not started; it runs outside tmux
AlertOff ==
  /\ TMUX = FALSE
  /\ TMUX_PANE = FALSE
  /\ cachedWindowId = None
  /\ hasAlert = FALSE
  /\ windowName = <<>>
  /\ nameBefore = <<>>
  /\ apc = "off"
  /\ handler = None
  /\ guard = None
  /\ gate = None
  /\ log = <<>>
  /\ frontmost = TRUE
  /\ paneActive = TRUE

Init ==
  /\ AlertOff
  /\ OtherOff
  /\ \E i \in DOMAIN InitFiles :
       /\ themes = InitFiles[i].themes
       /\ ttyProfiles = InitFiles[i].ttyProfiles
  /\ now = 0
  /\ ticks = 0
  /\ instances = EmptyTable
  /\ pc = [p \in Pids |-> "off"]
  /\ envProfile = [p \in Pids |-> None]
  /\ dirProfile = [p \in Pids |-> None]
  /\ currentTty = [p \in Pids |-> None]
  /\ state = [p \in Pids |-> EmptyTable]
  /\ dstate = [p \in Pids |-> EmptyTable]
  /\ ttyProfile = [p \in Pids |-> None]
  /\ profile = [p \in Pids |-> NoResult]
  /\ data = [p \in Pids |-> EmptyTable]
  /\ result = [p \in Pids |-> NoResult]
  /\ starts = 0
  /\ recalls = 0
  /\ overlap = {}
  /\ mapped = [p \in Pids |-> None]

(* ---------------------------------------------------------------------- *)
(* Process start and the clock                                             *)
(* ---------------------------------------------------------------------- *)
\* a new OS process gets pid p; its environment is fixed for its lifetime
Start(p) ==
  /\ pc[p] \in {"off", "exited"}
  /\ starts < MaxStarts
  /\ starts = 0 => p = 1
  /\ \E e \in EnvValues, t \in TtyIds \cup {None} :
       /\ envProfile' = [envProfile EXCEPT ![p] = e]
       /\ currentTty' = [currentTty EXCEPT ![p] = t]
  /\ pc' = [pc EXCEPT ![p] = "init"]
  /\ starts' = starts + 1
  /\ overlap' = {pair \in overlap : p \notin pair}
  /\ UNCHANGED <<themes, now, ticks, instances, ttyProfiles, dirProfile, state,
                 dstate, ttyProfile, profile, data, result, recalls, mapped>>
  /\ UNCHANGED alertVars
  /\ UNCHANGED otherVars

\* An operation lasts milliseconds and a clock step a day: the clock steps
\* between operations.
Tick ==
  /\ ticks < MaxTicks
  /\ \A p \in Pids : pc[p] \in {"off", "exited", "init", "running"}
  /\ \E d \in Deltas : now' = now + d
  /\ ticks' = ticks + 1
  /\ UNCHANGED <<themes, instances, ttyProfiles, pc, envProfile, dirProfile,
                 currentTty, state, dstate, ttyProfile, profile, data,
                 result, starts, recalls, overlap, mapped>>
  /\ UNCHANGED alertVars
  /\ UNCHANGED otherVars

(* ---------------------------------------------------------------------- *)
(* assignThemeToInstance                                                   *)
(* ---------------------------------------------------------------------- *)
\* the locals of assignThemeToInstance / determineProfile go out of scope
DropLocals(p) ==
  /\ envProfile' = [envProfile EXCEPT ![p] = None]
  /\ currentTty' = [currentTty EXCEPT ![p] = None]
  /\ state' = [state EXCEPT ![p] = EmptyTable]
  /\ dstate' = [dstate EXCEPT ![p] = EmptyTable]
  /\ dirProfile' = [dirProfile EXCEPT ![p] = None]
  /\ ttyProfile' = [ttyProfile EXCEPT ![p] = None]
  /\ profile' = [profile EXCEPT ![p] = NoResult]
  /\ data' = [data EXCEPT ![p] = EmptyTable]
  /\ mapped' = [mapped EXCEPT ![p] = None]

\* a call returns r
Return(p, r) ==
  /\ result' = [result EXCEPT ![p] = r]
  /\ pc' = [pc EXCEPT ![p] = "running"]
  /\ DropLocals(p)

\* line 507: is there a record under the caller's own pid
hasOwnRecord(st, pid) == pid \in DOMAIN st

\* lines 503-509: loadState, cleanupStaleInstances, the check for a record
\* under the caller's own pid
\* in a call that sees e in process.env and resolves the terminal to t
Load(p, e, t) ==
  LET st == cleanupStaleInstances(instances, now) IN
    IF hasOwnRecord(st, p)
    THEN /\ Return(p, [theme |-> st[p].theme, source |-> "instance"])
         /\ UNCHANGED overlap
    ELSE /\ state' = [state EXCEPT ![p] = st]
         /\ pc' = [pc EXCEPT ![p] = "determine"]
         /\ envProfile' = [envProfile EXCEPT ![p] = e]
         /\ currentTty' = [currentTty EXCEPT ![p] = t]
         /\ overlap' = overlap \cup {{p, q} : q \in {r \in Pids \ {p} : inCall(r)}}
         /\ mapped' = [mapped EXCEPT ![p] = Lookup(ttyProfiles, t)]
         /\ UNCHANGED <<result, dstate, dirProfile, ttyProfile, profile, data>>

\* the call the plugin makes when it starts (line 564)
AssignLoad(p) ==
  /\ pc[p] = "init"
  /\ Load(p, envProfile[p], currentTty[p])
  /\ UNCHANGED <<themes, now, ticks, instances, ttyProfiles, starts, recalls>>
  /\ UNCHANGED alertVars
  /\ UNCHANGED otherVars

\* a further call by a process that has already been assigned a theme
Reassign(p) ==
  /\ pc[p] = "running"
  /\ recalls < MaxRecalls
  /\ recalls' = recalls + 1
  /\ \E e \in EnvValues, t \in TtyIds \cup {None} : Load(p, e, t)
  /\ UNCHANGED <<themes, now, ticks, instances, ttyProfiles, starts>>
  /\ UNCHANGED alertVars
  /\ UNCHANGED otherVars

\* determineProfile, lines 464-485: the env, file and tty tiers; the
\* .ocsfx file of the working directory is read here, and the mapping is
\* read only when neither override names a theme
Determine(p) ==
  /\ pc[p] = "determine"
  /\ \E f \in FileValues :
       LET reached == /\ ~names(envProfile[p], themes)
                      /\ ~names(f, themes)
                      /\ currentTty[p] # None
           t == IF reached THEN Lookup(ttyProfiles, currentTty[p]) ELSE None
           r == resolveOverride(envProfile[p], f, t, themes)
       IN /\ dirProfile' = [dirProfile EXCEPT ![p] = f]
          /\ ttyProfile' = [ttyProfile EXCEPT ![p] = t]
          /\ IF r.source # None
             THEN /\ profile' = [profile EXCEPT ![p] = r]
                  /\ pc' = [pc EXCEPT ![p] = "register"]
             ELSE /\ pc' = [pc EXCEPT ![p] = "random"]
                  /\ UNCHANGED profile
  /\ UNCHANGED <<themes, now, ticks, instances, ttyProfiles, envProfile,
                 currentTty, state, dstate, data, result, starts, recalls, overlap, mapped>>
  /\ UNCHANGED alertVars
  /\ UNCHANGED otherVars

\* determineProfile, lines 488-492: the random tier
DetermineRandom(p) ==
  /\ pc[p] = "random"
  /\ LET st == cleanupStaleInstances(instances, now) IN
       /\ dstate' = [dstate EXCEPT ![p] = st]
       /\ \E k \in getAvailableThemes(st, themes) :
            profile' = [profile EXCEPT ![p] = [theme |-> k, source |-> "random"]]
  /\ pc' = [pc EXCEPT ![p] = IF currentTty[p] # None THEN "setTty" ELSE "register"]
  /\ UNCHANGED <<themes, now, ticks, instances, ttyProfiles, envProfile,
                 dirProfile, currentTty, state, ttyProfile, data, result, starts, recalls, overlap, mapped>>
  /\ UNCHANGED alertVars
  /\ UNCHANGED otherVars

\* setTtyProfile, line 393: loadTtyProfiles
SetTtyLoad(p) ==
  /\ pc[p] = "setTty"
  /\ data' = [data EXCEPT ![p] = ttyProfiles]
  /\ pc' = [pc EXCEPT ![p] = "saveTty"]
  /\ UNCHANGED <<themes, now, ticks, instances, ttyProfiles, envProfile,
                 dirProfile, currentTty, state, dstate, ttyProfile,
                 profile, result, starts, recalls, overlap, mapped>>
  /\ UNCHANGED alertVars
  /\ UNCHANGED otherVars

\* a setTtyProfile that maps every terminal of the document to the key
setTtyProfileEvery(d, tty, key) == [t \in DOMAIN d \cup {tty} |-> key]

\* a setTtyProfile that sets its entry in the file as it is at the save
setTtyProfileAtomic(d, tty, key) == Put(ttyProfiles, tty, key)

\* setTtyProfile, lines 394-395: the document written by saveTtyProfiles
setTtyProfile(d, tty, key) == Put(d, tty, key)

SetTtySave(p) ==
  /\ pc[p] = "saveTty"
  /\ ttyProfiles' = setTtyProfile(data[p], currentTty[p], profile[p].theme)
  /\ data' = [data EXCEPT ![p] = EmptyTable]
  /\ pc' = [pc EXCEPT ![p] = "register"]
  /\ UNCHANGED <<themes, now, ticks, instances, envProfile, dirProfile,
                 currentTty, state, dstate, ttyProfile, profile, result, starts, recalls, overlap, mapped>>
  /\ UNCHANGED alertVars
  /\ UNCHANGED otherVars

\* lines 515-519: the table written by saveState(state)
registerInstance(st, pid, key, t) ==
  Put(st, pid, [theme |-> key, startedAt |-> toISOString(t)])

\* a Register that holds back while another process is inside a call
RegisterWaits(p) ==
  /\ pc[p] = "register"
  /\ \A q \in Pids \ {p} : ~inCall(q)
  /\ instances' = registerInstance(state[p], p, profile[p].theme, now)
  /\ Return(p, profile[p])
  /\ UNCHANGED <<themes, now, ticks, ttyProfiles, starts, recalls, overlap>>
  /\ UNCHANGED alertVars
  /\ UNCHANGED otherVars

Register(p) ==
  /\ pc[p] = "register"
  /\ instances' = registerInstance(state[p], p, profile[p].theme, now)
  /\ Return(p, profile[p])
  /\ UNCHANGED <<themes, now, ticks, ttyProfiles, starts, recalls, overlap>>
  /\ UNCHANGED alertVars
  /\ UNCHANGED otherVars

(* ---------------------------------------------------------------------- *)
(* removeInstance (run by the exit / SIGINT / SIGTERM handlers) and kill   *)
(* ---------------------------------------------------------------------- *)
\* the process under pid p no longer runs
Gone(p) ==
  /\ result' = [result EXCEPT ![p] = NoResult]
  /\ overlap' = {pair \in overlap : p \notin pair}
  /\ DropLocals(p)

\* line 525: loadState (no stale cleanup here).  The 'exit' handler runs
\* cleanup once; the SIGINT and SIGTERM handlers run it and call
\* process.exit(0), which runs the 'exit' handler, so cleanup runs again.
RemoveLoad(p) ==
  /\ \/ /\ pc[p] = "running"
        /\ \E h \in {"removing", "sigRemoving"} : pc' = [pc EXCEPT ![p] = h]
     \/ /\ pc[p] = "exiting"
        /\ pc' = [pc EXCEPT ![p] = "removing"]
  /\ state' = [state EXCEPT ![p] = instances]
  /\ UNCHANGED <<themes, now, ticks, instances, ttyProfiles, envProfile,
                 dirProfile, currentTty, dstate, ttyProfile, profile,
                 data, result, starts, recalls, overlap, mapped>>
  /\ UNCHANGED alertVars
  /\ UNCHANGED otherVars

\* removeInstance that saves the table as loaded
removeInstanceKeeps(st, pid) == st

\* lines 526-527: the table written by saveState(state)
removeInstance(st, pid) == Delete(st, pid)

RemoveSave(p) ==
  /\ pc[p] \in {"removing", "sigRemoving"}
  /\ instances' = removeInstance(state[p], p)
  /\ pc' = [pc EXCEPT ![p] = IF pc[p] = "removing" THEN "exited" ELSE "exiting"]
  /\ Gone(p)
  /\ UNCHANGED <<themes, now, ticks, ttyProfiles, starts, recalls>>
  /\ UNCHANGED alertVars
  /\ UNCHANGED otherVars

\* abnormal termination (kill -9, or a signal before the handlers are
\* installed): the process stops where it is, nothing is cleaned up.  A
\* process killed before its first write leaves the files as if it had never
\* started, so kills are taken from the first write on.
Kill(p) ==
  /\ pc[p] \in {"register", "running"}
  /\ pc' = [pc EXCEPT ![p] = "off"]
  /\ Gone(p)
  /\ UNCHANGED <<themes, now, ticks, instances, ttyProfiles, starts, recalls>>
  /\ UNCHANGED alertVars
  /\ UNCHANGED otherVars

Next ==
  \E p \in Pids :
       \/ Start(p)
       \/ AssignLoad(p)
       \/ Determine(p)
       \/ DetermineRandom(p)
       \/ SetTtyLoad(p)
       \/ SetTtySave(p)
       \/ Register(p)
       \/ RemoveLoad(p)
       \/ RemoveSave(p)
       \/ Kill(p)

Spec == Init /\ [][Next]_vars

\* the same processes with the clock running
NextClock == Next \/ Tick

SpecClock == Init /\ [][NextClock]_vars

\* the same processes when a process may call assignThemeToInstance again
NextRecall == Next \/ \E p \in Pids : Reassign(p)

SpecRecall == Init /\ [][NextRecall]_vars

(* ---------------------------------------------------------------------- *)
(* The eviction pass on tables of records of every age                     *)
(* ---------------------------------------------------------------------- *)
\* ages of the records of a table: one second, 24 hours, 24 hours and one
\* millisecond, 24 hours and one second
EvictAges == {1000, maxAge, maxAge + 1, maxAge + 1000}

\* Date.now() when the table is loaded
EvictNow == 2 * maxAge

\* the records instances.json may hold then
EvictRecords ==
  [theme : themes, startedAt : {toISOString(EvictNow - a) : a \in EvictAges}]

InitEvict ==
  /\ AlertOff
  /\ OtherOff
  /\ \E i \in DOMAIN InitFiles :
       /\ themes = InitFiles[i].themes
       /\ ttyProfiles = InitFiles[i].ttyProfiles
  /\ now = EvictNow
  /\ ticks = 0
  /\ \E D \in SUBSET Pids : instances \in [D -> EvictRecords]
  /\ pc = [p \in Pids |-> "off"]
  /\ envProfile = [p \in Pids |-> None]
  /\ dirProfile = [p \in Pids |-> None]
  /\ currentTty = [p \in Pids |-> None]
  /\ state = [p \in Pids |-> EmptyTable]
  /\ dstate = [p \in Pids |-> EmptyTable]
  /\ ttyProfile = [p \in Pids |-> None]
  /\ profile = [p \in Pids |-> NoResult]
  /\ data = [p \in Pids |-> EmptyTable]
  /\ result = [p \in Pids |-> NoResult]
  /\ starts = 0
  /\ recalls = 0
  /\ overlap = {}
  /\ mapped = [p \in Pids |-> None]

\* processes start and run loadState and cleanupStaleInstances
NextEvict == \E p \in Pids : Start(p) \/ AssignLoad(p)

SpecEvict == InitEvict /\ [][NextEvict]_vars

(* ---------------------------------------------------------------------- *)
(* Alert state, focus detection and the playback gate of one instance      *)
(* ---------------------------------------------------------------------- *)
\* Strings are sequences of one-character strings.
ALERT_PREFIX == <<"!", "!", " ">>

\* the characters String.prototype.trim removes, as far as they occur here
Whitespace == {" ", "\n"}

RECURSIVE trimStart(_)
trimStart(s) ==
  IF s # <<>> /\ Head(s) \in Whitespace THEN trimStart(Tail(s)) ELSE s

RECURSIVE trimEnd(_)
trimEnd(s) ==
  IF s # <<>> /\ s[Len(s)] \in Whitespace
  THEN trimEnd(SubSeq(s, 1, Len(s) - 1))
  ELSE s

trim(s) == trimEnd(trimStart(s))

startsWith(s, pre) == Len(s) >= Len(pre) /\ SubSeq(s, 1, Len(pre)) = pre

slice(s, n) == SubSeq(s, n + 1, Len(s))

\* output of `tmux display-message -p '#{window_name}'`: the name and a newline
displayMessage(name) == name \o <<"\n">>

\* window names the pane's window may have when the instance first starts
InitNames == {<<>>, <<"w">>, <<"w", " ">>}

\* isOurWezTermWindowActive: f is whether the window is frontmost; a failing
\* command makes it answer true
isOurWezTermWindowActive(f, err) ==
  LET answer == IF err THEN TRUE ELSE f IN
    [active |-> answer, calls |-> <<IF answer THEN "gui+" ELSE "gui-">>]

\* an isTmuxPaneActive that answers false when its command fails
isTmuxPaneActiveStrict(pane, a, err) ==
  IF ~pane
  THEN [active |-> TRUE, calls |-> <<>>]
  ELSE LET answer == IF err THEN FALSE ELSE a IN
         [active |-> answer, calls |-> <<IF answer THEN "tmux+" ELSE "tmux-">>]

\* isTmuxPaneActive: no pane id means active, without a query
isTmuxPaneActive(pane, a, err) ==
  IF ~pane
  THEN [active |-> TRUE, calls |-> <<>>]
  ELSE LET answer == IF err THEN TRUE ELSE a IN
         [active |-> answer, calls |-> <<IF answer THEN "tmux+" ELSE "tmux-">>]

\* isTerminalAppFocused: f is whether a terminal application is frontmost
isTerminalAppFocused(f, err) ==
  LET answer == IF err THEN TRUE ELSE f IN
    [active |-> answer, calls |-> <<IF answer THEN "front+" ELSE "front-">>]

\* an isPaneActive that asks tmux even when the window is not frontmost
isPaneActiveAllStages(wid, tmux, pane, f, a, e1, e2) ==
  IF wid # None
  THEN LET ourWindowActive == isOurWezTermWindowActive(f, e1)
           t == isTmuxPaneActive(pane, a, e2) IN
         IF tmux
         THEN [active |-> ourWindowActive.active /\ t.active,
               calls |-> ourWindowActive.calls \o t.calls]
         ELSE ourWindowActive
  ELSE IF tmux THEN isTmuxPaneActive(pane, a, e2)
       ELSE isTerminalAppFocused(f, e1)

\* isPaneActive: the answer and the probes it ran, in order
isPaneActive(wid, tmux, pane, f, a, e1, e2) ==
  IF wid # None
  THEN LET ourWindowActive == isOurWezTermWindowActive(f, e1) IN
         IF ~ourWindowActive.active
         THEN [active |-> FALSE, calls |-> ourWindowActive.calls]
         ELSE IF tmux
              THEN LET t == isTmuxPaneActive(pane, a, e2) IN
                     [active |-> t.active,
                      calls |-> ourWindowActive.calls \o t.calls]
              ELSE [active |-> TRUE, calls |-> ourWindowActive.calls]
  ELSE IF tmux THEN isTmuxPaneActive(pane, a, e2)
       ELSE isTerminalAppFocused(f, e1)

\* setTmuxAlert: eName / eRename say that the tmux command fails
setTmuxAlert(tmux, pane, has, name, eName, eRename) ==
  IF ~tmux \/ ~pane \/ has
  THEN [hasAlert |-> has, windowName |-> name, calls |-> <<>>]
  ELSE IF eName
  THEN [hasAlert |-> has, windowName |-> name, calls |-> <<"nameErr">>]
  ELSE LET currentName == trim(displayMessage(name)) IN
         IF startsWith(currentName, ALERT_PREFIX)
         THEN [hasAlert |-> has, windowName |-> name, calls |-> <<"name">>]
         ELSE IF eRename
         THEN [hasAlert |-> has, windowName |-> name,
               calls |-> <<"name", "renameErr">>]
         ELSE [hasAlert |-> TRUE, windowName |-> ALERT_PREFIX \o currentName,
               calls |-> <<"name", "rename">>]

\* clearTmuxAlert
clearTmuxAlert(tmux, pane, has, name, eName, eRename) ==
  IF ~tmux \/ ~pane \/ ~has
  THEN [hasAlert |-> has, windowName |-> name, calls |-> <<>>]
  ELSE IF eName
  THEN [hasAlert |-> has, windowName |-> name, calls |-> <<"nameErr">>]
  ELSE LET currentName == trim(displayMessage(name)) IN
         IF startsWith(currentName, ALERT_PREFIX)
         THEN IF eRename
              THEN [hasAlert |-> has, windowName |-> name,
                    calls |-> <<"name", "renameErr">>]
              ELSE [hasAlert |-> FALSE,
                    windowName |-> slice(currentName, Len(ALERT_PREFIX)),
                    calls |-> <<"name", "rename">>]
         ELSE [hasAlert |-> FALSE, windowName |-> name, calls |-> <<"name">>]

\* handlers that begin with the alert-clearing check
Guarded == {"event.ak", "event.tuiAk", "event.idle", "event.sound",
            "event.other", "tool.question", "tool.other"}

\* the tui.command.execute hook
Hooks == {"hook.ak", "hook.other"}

\* tools and commands that call playSoundAlways (preview, theme switch)
Forced == {"preview"}

\* the environment of the instance does not change while it runs
envVars == <<TMUX, TMUX_PANE>>

\* plugin initialisation: the module variables are fresh, captureWindowInfo
\* may capture a WezTerm window id, the startup announcement plays if the
\* theme has one
PluginStart ==
  /\ apc \in {"off", "exited"}
  /\ \E wid \in {None, "window"} : cachedWindowId' = wid
  /\ hasAlert' = FALSE
  /\ handler' = "startup"
  /\ \E announce \in BOOLEAN : apc' = IF announce THEN "always" ELSE "idle"
  /\ log' = <<>>
  /\ guard' = None
  /\ gate' = None
  /\ UNCHANGED <<envVars, windowName, nameBefore, frontmost, paneActive>>
  /\ UNCHANGED assignVars
  /\ UNCHANGED otherVars

\* an event, a tool call or a command reaches the plugin
Receive(h) ==
  /\ apc = "idle"
  /\ handler' = h
  /\ apc' = IF h \in Guarded THEN "guard"
            ELSE IF h \in Hooks THEN "dispatch" ELSE "always"
  /\ log' = <<>>
  /\ guard' = None
  /\ gate' = None
  /\ UNCHANGED <<envVars, cachedWindowId, hasAlert, windowName, nameBefore,
                 frontmost, paneActive>>
  /\ UNCHANGED assignVars
  /\ UNCHANGED otherVars

\* if (hasAlert && isPaneActive()) clearTmuxAlert()
ClearIfActive ==
  /\ apc = "guard"
  /\ IF ~hasAlert
     THEN /\ guard' = "skipped"
          /\ UNCHANGED <<hasAlert, windowName, log>>
     ELSE \E e1, e2, eName, eRename \in BOOLEAN :
            LET r == isPaneActive(cachedWindowId, TMUX, TMUX_PANE,
                                  frontmost, paneActive, e1, e2)
                c == clearTmuxAlert(TMUX, TMUX_PANE, hasAlert, windowName,
                                    eName, eRename) IN
              IF r.active
              THEN /\ guard' = "active"
                   /\ hasAlert' = c.hasAlert
                   /\ windowName' = c.windowName
                   /\ log' = log \o r.calls \o c.calls
              ELSE /\ guard' = "inactive"
                   /\ log' = log \o r.calls
                   /\ UNCHANGED <<hasAlert, windowName>>
  /\ apc' = "dispatch"
  /\ UNCHANGED <<envVars, cachedWindowId, nameBefore, handler, gate,
                 frontmost, paneActive>>
  /\ UNCHANGED assignVars
  /\ UNCHANGED otherVars

\* the ak command: clearTmuxAlert and return
Acknowledge ==
  /\ apc = "dispatch"
  /\ handler \in {"event.ak", "event.tuiAk", "hook.ak"}
  /\ \E eName, eRename \in BOOLEAN :
       LET c == clearTmuxAlert(TMUX, TMUX_PANE, hasAlert, windowName,
                               eName, eRename) IN
         /\ hasAlert' = c.hasAlert
         /\ windowName' = c.windowName
         /\ log' = log \o c.calls
  /\ apc' = "idle"
  /\ UNCHANGED <<envVars, cachedWindowId, nameBefore, handler, guard, gate,
                 frontmost, paneActive>>
  /\ UNCHANGED assignVars
  /\ UNCHANGED otherVars

\* an event, tool or command that has no sound and no acknowledgement
Skip ==
  /\ apc = "dispatch"
  /\ handler \in {"event.other", "tool.other", "hook.other"}
  /\ apc' = "idle"
  /\ UNCHANGED <<envVars, cachedWindowId, hasAlert, windowName, nameBefore,
                 handler, guard, gate, log, frontmost, paneActive>>
  /\ UNCHANGED assignVars
  /\ UNCHANGED otherVars

\* session.idle: await client.session.get
SessionGet ==
  /\ apc = "dispatch"
  /\ handler = "event.idle"
  /\ apc' = "await"
  /\ UNCHANGED <<envVars, cachedWindowId, hasAlert, windowName, nameBefore,
                 handler, guard, gate, log, frontmost, paneActive>>
  /\ UNCHANGED assignVars
  /\ UNCHANGED otherVars

\* the sound of the event is chosen; play is false for a sub-agent session,
\* a theme without a sound for the event, or a missing sound file
Select ==
  /\ \/ apc = "await"
     \/ apc = "dispatch" /\ handler \in {"event.sound", "tool.question"}
  /\ \E play \in BOOLEAN : apc' = IF play THEN "gate" ELSE "idle"
  /\ UNCHANGED <<envVars, cachedWindowId, hasAlert, windowName, nameBefore,
                 handler, guard, gate, log, frontmost, paneActive>>
  /\ UNCHANGED assignVars
  /\ UNCHANGED otherVars

\* a playSound that sets the alert and plays whatever isPaneActive reports
GateOpen ==
  /\ apc = "gate"
  /\ \E e1, e2 \in BOOLEAN :
       LET r == isPaneActive(cachedWindowId, TMUX, TMUX_PANE,
                             frontmost, paneActive, e1, e2) IN
         /\ gate' = IF r.active THEN "active" ELSE "inactive"
         /\ log' = log \o r.calls
         /\ apc' = "alert"
  /\ UNCHANGED <<envVars, cachedWindowId, hasAlert, windowName, nameBefore,
                 handler, guard, frontmost, paneActive>>
  /\ UNCHANGED assignVars
  /\ UNCHANGED otherVars

\* playSound: if (isPaneActive()) return
Gate ==
  /\ apc = "gate"
  /\ \E e1, e2 \in BOOLEAN :
       LET r == isPaneActive(cachedWindowId, TMUX, TMUX_PANE,
                             frontmost, paneActive, e1, e2) IN
         /\ gate' = IF r.active THEN "active" ELSE "inactive"
         /\ log' = log \o r.calls
         /\ apc' = IF r.active THEN "idle" ELSE "alert"
  /\ UNCHANGED <<envVars, cachedWindowId, hasAlert, windowName, nameBefore,
                 handler, guard, frontmost, paneActive>>
  /\ UNCHANGED assignVars
  /\ UNCHANGED otherVars

\* playSound: setTmuxAlert()
SetAlert ==
  /\ apc = "alert"
  /\ \E eName, eRename \in BOOLEAN :
       LET s == setTmuxAlert(TMUX, TMUX_PANE, hasAlert, windowName,
                             eName, eRename) IN
         /\ hasAlert' = s.hasAlert
         /\ windowName' = s.windowName
         /\ log' = log \o s.calls
         /\ nameBefore' = IF s.hasAlert /\ ~hasAlert THEN windowName
                          ELSE nameBefore
  /\ apc' = "invoke"
  /\ UNCHANGED <<envVars, cachedWindowId, handler, guard, gate,
                 frontmost, paneActive>>
  /\ UNCHANGED assignVars
  /\ UNCHANGED otherVars

\* playSound: playSoundLib(soundPath, ...)
Invoke ==
  /\ apc = "invoke"
  /\ log' = Append(log, "player")
  /\ apc' = "idle"
  /\ UNCHANGED <<envVars, cachedWindowId, hasAlert, windowName, nameBefore,
                 handler, guard, gate, frontmost, paneActive>>
  /\ UNCHANGED assignVars
  /\ UNCHANGED otherVars

\* a playSoundAlways that goes through the gate of playSound
playSoundAlwaysGated ==
  /\ apc = "always"
  /\ apc' = "gate"
  /\ UNCHANGED <<envVars, cachedWindowId, hasAlert, windowName, nameBefore,
                 handler, guard, gate, log, frontmost, paneActive>>
  /\ UNCHANGED assignVars
  /\ UNCHANGED otherVars

\* playSoundAlways: playSoundLib(soundPath, {..., force: true})
playSoundAlways ==
  /\ apc = "always"
  /\ log' = Append(log, "playerForce")
  /\ apc' = "idle"
  /\ UNCHANGED <<envVars, cachedWindowId, hasAlert, windowName, nameBefore,
                 handler, guard, gate, frontmost, paneActive>>
  /\ UNCHANGED assignVars
  /\ UNCHANGED otherVars

\* the process exits, or receives SIGINT or SIGTERM
Exit(signal) ==
  /\ apc = "idle"
  /\ handler' = IF signal THEN "signal" ELSE "exit"
  /\ apc' = "cleanup"
  /\ log' = <<>>
  /\ guard' = None
  /\ gate' = None
  /\ UNCHANGED <<envVars, cachedWindowId, hasAlert, windowName, nameBefore,
                 frontmost, paneActive>>
  /\ UNCHANGED assignVars
  /\ UNCHANGED otherVars

\* cleanup: clearTmuxAlert() (removeInstance is RemoveLoad / RemoveSave);
\* a signal handler runs it and calls process.exit, which runs it again
Cleanup ==
  /\ apc = "cleanup"
  /\ \E eName, eRename \in BOOLEAN :
       LET c == clearTmuxAlert(TMUX, TMUX_PANE, hasAlert, windowName,
                               eName, eRename) IN
         /\ hasAlert' = c.hasAlert
         /\ windowName' = c.windowName
         /\ log' = log \o c.calls
  /\ IF handler = "signal"
     THEN handler' = "exit" /\ apc' = "cleanup"
     ELSE handler' = handler /\ apc' = "exited"
  /\ UNCHANGED <<envVars, cachedWindowId, nameBefore, guard, gate,
                 frontmost, paneActive>>
  /\ UNCHANGED assignVars
  /\ UNCHANGED otherVars

\* the process is killed: no handler runs
Crash ==
  /\ apc \notin {"off", "exited"}
  /\ apc' = "off"
  /\ UNCHANGED <<envVars, cachedWindowId, hasAlert, windowName, nameBefore,
                 handler, guard, gate, log, frontmost, paneActive>>
  /\ UNCHANGED assignVars
  /\ UNCHANGED otherVars

\* the user moves to or away from the window or the pane; this happens
\* between handlers and while a handler awaits
FocusChange ==
  /\ apc \in {"idle", "await"}
  /\ \E f, a \in BOOLEAN :
       /\ <<f, a>> # <<frontmost, paneActive>>
       /\ frontmost' = f
       /\ paneActive' = a
  /\ UNCHANGED <<envVars, cachedWindowId, hasAlert, windowName, nameBefore,
                 apc, handler, guard, gate, log>>
  /\ UNCHANGED assignVars
  /\ UNCHANGED otherVars

InitAlert ==
  /\ OtherOff
  /\ TMUX \in BOOLEAN
  /\ TMUX_PANE \in BOOLEAN
  /\ cachedWindowId = None
  /\ hasAlert = FALSE
  /\ windowName \in (IF TMUX THEN InitNames ELSE {<<>>})
  /\ nameBefore = <<>>
  /\ apc = "off"
  /\ handler = None
  /\ guard = None
  /\ gate = None
  /\ log = <<>>
  /\ frontmost \in BOOLEAN
  /\ paneActive \in BOOLEAN
  /\ themes = InitFiles[1].themes
  /\ ttyProfiles = InitFiles[1].ttyProfiles
  /\ now = 0
  /\ ticks = 0
  /\ instances = EmptyTable
  /\ pc = [p \in Pids |-> "off"]
  /\ envProfile = [p \in Pids |-> None]
  /\ dirProfile = [p \in Pids |-> None]
  /\ currentTty = [p \in Pids |-> None]
  /\ state = [p \in Pids |-> EmptyTable]
  /\ dstate = [p \in Pids |-> EmptyTable]
  /\ ttyProfile = [p \in Pids |-> None]
  /\ profile = [p \in Pids |-> NoResult]
  /\ data = [p \in Pids |-> EmptyTable]
  /\ result = [p \in Pids |-> NoResult]
  /\ starts = 0
  /\ recalls = 0
  /\ overlap = {}
  /\ mapped = [p \in Pids |-> None]

NextAlert ==
  \/ PluginStart
  \/ \E h \in Guarded \cup Hooks \cup Forced : Receive(h)
  \/ ClearIfActive
  \/ Acknowledge
  \/ Skip
  \/ SessionGet
  \/ Select
  \/ Gate
  \/ SetAlert
  \/ Invoke
  \/ playSoundAlways
  \/ \E signal \in BOOLEAN : Exit(signal)
  \/ Cleanup
  \/ Crash
  \/ FocusChange

SpecAlert == InitAlert /\ [][NextAlert]_vars

(* ---------------------------------------------------------------------- *)
(* The focus probes as the commands answer them                            *)
(* ---------------------------------------------------------------------- *)
\* String.prototype.toLowerCase on the letters that occur in the names below
LowerOf == "A" :> "a" @@ "C" :> "c" @@ "F" :> "f" @@ "G" :> "g" @@ "H" :> "h" @@ "T" :> "t" @@ "W" :> "w"

toLowerCase(s) ==
  [i \in DOMAIN s |-> IF s[i] \in DOMAIN LowerOf THEN LowerOf[s[i]] ELSE s[i]]

\* String.prototype.includes
includes(s, sub) ==
  \E i \in 0..(Len(s) - Len(sub)) : SubSeq(s, i + 1, i + Len(sub)) = sub

\* String.prototype.split(" ")
RECURSIVE split(_)
split(s) ==
  IF \E i \in DOMAIN s : s[i] = " "
  THEN LET i == CHOOSE j \in DOMAIN s :
                  s[j] = " " /\ \A k \in 1..(j - 1) : s[k] # " " IN
         <<SubSeq(s, 1, i - 1)>> \o split(SubSeq(s, i + 1, Len(s)))
  ELSE <<s>>

TERMINAL_APPS ==
  {<<"w", "e", "z", "t", "e", "r", "m", "-", "g", "u", "i">>,
   <<"W", "e", "z", "T", "e", "r", "m">>,
   <<"T", "e", "r", "m", "i", "n", "a", "l">>,
   <<"i", "T", "e", "r", "m", "2">>,
   <<"i", "T", "e", "r", "m">>,
   <<"A", "l", "a", "c", "r", "i", "t", "t", "y">>,
   <<"k", "i", "t", "t", "y">>,
   <<"G", "h", "o", "s", "t", "t", "y">>,
   <<"H", "y", "p", "e", "r">>}

\* names the frontmost application may have
FrontApps == {<<"w", "e", "z", "t", "e", "r", "m", "-", "g", "u", "i">>, <<"i", "T", "e", "r", "m", "2">>, <<"F", "i", "n", "d", "e", "r">>}

\* titles a WezTerm window may have
Titles == {"opencode", "zsh"}

\* the commands a probe runs
Commands == {"frontApp", "frontWindow", "list", "tmux"}

\* what the commands would answer: the frontmost application, the title of
\* the front WezTerm window, the title `wezterm cli list` gives for the
\* cached window (None when no pane of it is listed), the three tmux flags
\* (session_attached counts the attached clients), and the commands that
\* fail or time out
Worlds ==
  [frontApp : FrontApps, focusedTitle : Titles, ourTitle : Titles \cup {None},
   sessionAttached : {"0", "1", "2"}, windowActive : {"0", "1"},
   paneFlag : {"0", "1"}, faults : SUBSET Commands]

\* isOurWezTermWindowActive when no command throws
wezTermAnswer(w) ==
  IF ~includes(toLowerCase(w.frontApp), <<"w", "e", "z", "t", "e", "r", "m">>)
  THEN FALSE
  ELSE IF w.ourTitle = None THEN TRUE
  ELSE w.focusedTitle = w.ourTitle

\* a command that isOurWezTermWindowActive reaches throws
wezTermThrows(w) ==
  \/ "frontApp" \in w.faults
  \/ /\ includes(toLowerCase(w.frontApp), <<"w", "e", "z", "t", "e", "r", "m">>)
     /\ w.faults \cap {"frontWindow", "list"} # {}

\* output of tmux display-message -p '#{session_attached} #{window_active}
\* #{pane_active}'
tmuxOutput(w) ==
  <<w.sessionAttached, " ", w.windowActive, " ", w.paneFlag, "\n">>

\* an isTmuxPaneActive that does not look at the pane flag
tmuxAnswerNoPane(w) ==
  LET flags == split(trim(tmuxOutput(w))) IN
    /\ Len(flags) >= 2
    /\ flags[1] = <<"1">>
    /\ flags[2] = <<"1">>

\* isTmuxPaneActive when the command does not throw
tmuxAnswer(w) ==
  LET flags == split(trim(tmuxOutput(w))) IN
    /\ Len(flags) >= 3
    /\ flags[1] = <<"1">>
    /\ flags[2] = <<"1">>
    /\ flags[3] = <<"1">>

\* the first probe of isPaneActive throws (isOurWezTermWindowActive with a
\* cached window, isTerminalAppFocused without)
probeFails(w, wid) ==
  IF wid # None THEN wezTermThrows(w) ELSE "frontApp" \in w.faults

\* isTerminalAppFocused when the command does not throw
terminalAnswer(w) ==
  \E app \in TERMINAL_APPS :
    includes(toLowerCase(w.frontApp), toLowerCase(app))

\* isPaneActive over the answers of the commands
isPaneActiveIn(w, wid, tmux, pane) ==
  isPaneActive(wid, tmux, pane,
               IF wid # None THEN wezTermAnswer(w) ELSE terminalAnswer(w),
               tmuxAnswer(w), probeFails(w, wid), "tmux" \in w.faults)

\* playSound reaches its focus check with the commands answering as in world
GateIn ==
  /\ apc = "gate"
  /\ LET r == isPaneActiveIn(world, cachedWindowId, TMUX, TMUX_PANE) IN
       /\ gate' = IF r.active THEN "active" ELSE "inactive"
       /\ log' = log \o r.calls
       /\ apc' = IF r.active THEN "idle" ELSE "alert"
  /\ UNCHANGED <<envVars, cachedWindowId, hasAlert, windowName, nameBefore,
                 handler, guard, frontmost, paneActive>>
  /\ UNCHANGED assignVars
  /\ UNCHANGED otherVars

\* a playSound call is about to check the focus, in every environment and
\* with every answer of the commands
InitFocus ==
  /\ world \in Worlds
  /\ ttyFile = [kind |-> "missing", key |-> None, entries |-> <<>>]
  /\ instFile = [kind |-> "missing", key |-> None, entries |-> <<>>]
  /\ outcome = [op |-> None, threw |-> FALSE, value |-> None]
  /\ StoreOff
  /\ PluginOff
  /\ TMUX \in BOOLEAN
  /\ TMUX_PANE \in BOOLEAN
  /\ cachedWindowId \in {None, "window"}
  /\ hasAlert = FALSE
  /\ windowName = (IF TMUX THEN <<"w">> ELSE <<>>)
  /\ nameBefore = <<>>
  /\ apc = "gate"
  /\ handler = "event.sound"
  /\ guard = "skipped"
  /\ gate = None
  /\ log = <<>>
  /\ frontmost = TRUE
  /\ paneActive = TRUE
  /\ themes = InitFiles[1].themes
  /\ ttyProfiles = InitFiles[1].ttyProfiles
  /\ now = 0
  /\ ticks = 0
  /\ instances = EmptyTable
  /\ pc = [p \in Pids |-> "off"]
  /\ envProfile = [p \in Pids |-> None]
  /\ dirProfile = [p \in Pids |-> None]
  /\ currentTty = [p \in Pids |-> None]
  /\ state = [p \in Pids |-> EmptyTable]
  /\ dstate = [p \in Pids |-> EmptyTable]
  /\ ttyProfile = [p \in Pids |-> None]
  /\ profile = [p \in Pids |-> NoResult]
  /\ data = [p \in Pids |-> EmptyTable]
  /\ result = [p \in Pids |-> NoResult]
  /\ starts = 0
  /\ recalls = 0
  /\ overlap = {}
  /\ mapped = [p \in Pids |-> None]

NextFocus == GateIn \/ SetAlert \/ Invoke

SpecFocus == InitFocus /\ [][NextFocus]_vars

(* ---------------------------------------------------------------------- *)
(* The two storage files as documents                                      *)
(* ---------------------------------------------------------------------- *)
\* A document is a missing file, text that is not JSON (an empty or
\* truncated file), the JSON text null, or the JSON text of an object with
\* at most one top-level key whose value is an object given by its
\* key/value pairs in the order they are written.
Missing == [kind |-> "missing", key |-> None, entries |-> <<>>]
Garbage == [kind |-> "garbage", key |-> None, entries |-> <<>>]
JsonNull == [kind |-> "null", key |-> None, entries |-> <<>>]
JsonObject(key, entries) == [kind |-> "object", key |-> key, entries |-> entries]

\* the object a sequence of key/value pairs denotes; a repeated key takes
\* its last value
RECURSIVE mapOf(_)
mapOf(entries) ==
  IF entries = <<>> THEN EmptyTable
  ELSE LET e == entries[Len(entries)]
           rest == mapOf(SubSeq(entries, 1, Len(entries) - 1)) IN
         [k \in DOMAIN rest \cup {e[1]} |-> IF k = e[1] THEN e[2] ELSE rest[k]]

\* the key/value pairs JSON.stringify writes for an object
RECURSIVE entriesOf(_)
entriesOf(map) ==
  IF DOMAIN map = {} THEN <<>>
  ELSE LET k == CHOOSE x \in DOMAIN map : TRUE IN
         <<<<k, map[k]>>>> \o entriesOf([x \in DOMAIN map \ {k} |-> map[x]])

\* JSON.parse(readFileSync(file)): the value, or that it throws
JSONparse(doc) ==
  IF doc.kind = "object"
  THEN [threw |-> FALSE, kind |-> "object", key |-> doc.key,
        map |-> mapOf(doc.entries)]
  ELSE IF doc.kind = "null"
  THEN [threw |-> FALSE, kind |-> "null", key |-> None, map |-> EmptyTable]
  ELSE [threw |-> TRUE, kind |-> None, key |-> None, map |-> EmptyTable]

\* JSON.stringify({ [key]: map }, null, 2)
JSONstringify(key, map) == JsonObject(key, entriesOf(map))

\* loadTtyProfiles / loadState: { [key]: {} } for a missing file and for a
\* file JSON.parse rejects, else whatever JSON.parse returns
load(doc, key) ==
  LET parsed == JSONparse(doc) IN
    IF doc.kind = "missing" \/ parsed.threw
    THEN [kind |-> "object", key |-> key, map |-> EmptyTable]
    ELSE [kind |-> parsed.kind, key |-> parsed.key, map |-> parsed.map]

loadTtyProfiles(doc) == load(doc, "profiles")

loadState(doc) == load(doc, "instances")

\* reading data.profiles / state.instances throws a TypeError when the
\* loaded value is null or has no such property
lacks(loaded, key) == ~(loaded.kind = "object" /\ loaded.key = key)

\* getTtyProfile(tty)
getTtyProfile(doc, tty) ==
  LET loaded == loadTtyProfiles(doc) IN
    IF lacks(loaded, "profiles")
    THEN [threw |-> TRUE, value |-> None]
    ELSE [threw |-> FALSE, value |-> Lookup(loaded.map, tty)]

\* a setTtyProfile that writes a mapping holding the one entry only
setTtyProfileAlone(doc, tty, key) ==
  LET loaded == loadTtyProfiles(doc) IN
    IF lacks(loaded, "profiles")
    THEN [threw |-> TRUE, file |-> doc]
    ELSE [threw |-> FALSE,
          file |-> JSONstringify("profiles", setTtyProfile(EmptyTable, tty, key))]

\* setTtyProfile(tty, profile) on the file
setTtyProfileFile(doc, tty, key) ==
  LET loaded == loadTtyProfiles(doc) IN
    IF lacks(loaded, "profiles")
    THEN [threw |-> TRUE, file |-> doc]
    ELSE [threw |-> FALSE,
          file |-> JSONstringify("profiles", setTtyProfile(loaded.map, tty, key))]

\* removeInstance() on the file
removeInstanceFile(doc, pid) ==
  LET loaded == loadState(doc) IN
    IF lacks(loaded, "instances")
    THEN [threw |-> TRUE, file |-> doc]
    ELSE [threw |-> FALSE,
          file |-> JSONstringify("instances", removeInstance(loaded.map, pid))]

\* assignThemeToInstance() of a process with pid, whose OCSFX_PROFILE is e,
\* .ocsfx is f and terminal is tty, when the random tier would pick `pick`:
\* whether it throws, the two files afterwards and the value returned
assignThemeToInstance(iDoc, tDoc, pid, e, f, tty, pick, t, allThemes) ==
  LET loaded == loadState(iDoc)
      failed == [threw |-> TRUE, inst |-> iDoc, tty |-> tDoc, value |-> NoResult] IN
    IF lacks(loaded, "instances") THEN failed
    ELSE
      LET st == cleanupStaleInstances(loaded.map, t) IN
        IF pid \in DOMAIN st
        THEN [threw |-> FALSE, inst |-> iDoc, tty |-> tDoc,
              value |-> [theme |-> st[pid].theme, source |-> "instance"]]
        ELSE IF names(e, allThemes) \/ names(f, allThemes)
        THEN LET r == resolveOverride(e, f, None, allThemes) IN
               [threw |-> FALSE,
                inst |-> JSONstringify("instances",
                           registerInstance(st, pid, r.theme, t)),
                tty |-> tDoc, value |-> r]
        ELSE
          LET got == IF tty # None THEN getTtyProfile(tDoc, tty)
                     ELSE [threw |-> FALSE, value |-> None] IN
            IF got.threw THEN failed
            ELSE IF names(got.value, allThemes)
            THEN [threw |-> FALSE,
                  inst |-> JSONstringify("instances",
                             registerInstance(st, pid, got.value, t)),
                  tty |-> tDoc,
                  value |-> [theme |-> got.value, source |-> "tty"]]
            ELSE
              LET key == IF pick \in getAvailableThemes(st, allThemes)
                         THEN pick
                         ELSE CHOOSE k \in getAvailableThemes(st, allThemes) : TRUE
                  saved == IF tty # None THEN setTtyProfileFile(tDoc, tty, key)
                           ELSE [threw |-> FALSE, file |-> tDoc] IN
                [threw |-> FALSE,
                 inst |-> JSONstringify("instances",
                            registerInstance(st, pid, key, t)),
                 tty |-> saved.file,
                 value |-> [theme |-> key, source |-> "random"]]

\* contents tty-profiles.json may have when a call begins
TtyDocs ==
  {Missing, Garbage, JsonNull, JsonObject(None, <<>>),
   JsonObject("profiles", <<>>),
   JsonObject("profiles", <<<<"term:B", "marine">>>>),
   JsonObject("profiles", <<<<"term:A", "ghost">>, <<"term:B", "marine">>>>)}

\* contents instances.json may have: records registered at time 0 and at
\* the present, one of them left under pid 1 by a process that was killed,
\* naming a theme whose definition file is gone since
InstDocs ==
  {Missing, Garbage, JsonNull, JsonObject(None, <<>>),
   JsonObject("instances", <<>>),
   JsonObject("instances",
              <<<<1, [theme |-> "goliath", startedAt |-> toISOString(EvictNow)]>>>>),
   JsonObject("instances",
              <<<<2, [theme |-> "marine", startedAt |-> toISOString(EvictNow)]>>>>),
   JsonObject("instances",
              <<<<1, [theme |-> "ghost", startedAt |-> toISOString(0)]>>,
                <<2, [theme |-> "marine", startedAt |-> toISOString(EvictNow)]>>>>)}

CallGetTtyProfile(tty) ==
  /\ LET r == getTtyProfile(ttyFile, tty) IN
       outcome' = [op |-> "getTtyProfile", threw |-> r.threw, value |-> r.value]
  /\ UNCHANGED <<world, ttyFile, instFile>>
  /\ UNCHANGED <<assignVars, alertVars, storeVars, plugin, sideVars>>

CallSetTtyProfile(tty, key) ==
  /\ LET r == setTtyProfileFile(ttyFile, tty, key) IN
       /\ ttyFile' = r.file
       /\ outcome' = [op |-> "setTtyProfile", threw |-> r.threw,
                      value |-> <<tty, key>>]
  /\ UNCHANGED <<world, instFile>>
  /\ UNCHANGED <<assignVars, alertVars, storeVars, plugin, sideVars>>

CallAssign(pid) ==
  /\ \E e \in EnvValues, f \in FileValues, tty \in TtyIds \cup {None},
        pick \in themes :
       LET r == assignThemeToInstance(instFile, ttyFile, pid, e, f, tty, pick,
                                      now, themes) IN
         /\ instFile' = r.inst
         /\ ttyFile' = r.tty
         /\ outcome' = [op |-> "assignThemeToInstance", threw |-> r.threw,
                        value |-> r.value]
  /\ UNCHANGED world
  /\ UNCHANGED <<assignVars, alertVars, storeVars, plugin, sideVars>>

CallRemove(pid) ==
  /\ LET r == removeInstanceFile(instFile, pid) IN
       /\ instFile' = r.file
       /\ outcome' = [op |-> "removeInstance", threw |-> r.threw, value |-> pid]
  /\ UNCHANGED <<world, ttyFile>>
  /\ UNCHANGED <<assignVars, alertVars, storeVars, plugin, sideVars>>

InitStore ==
  /\ world = [faults |-> {}]
  /\ ttyFile \in TtyDocs
  /\ instFile \in InstDocs
  /\ outcome = [op |-> None, threw |-> FALSE, value |-> None]
  /\ StoreOff
  /\ PluginOff
  /\ AlertOff
  /\ themes = InitFiles[1].themes
  /\ ttyProfiles = InitFiles[1].ttyProfiles
  /\ now = EvictNow
  /\ ticks = 0
  /\ instances = EmptyTable
  /\ pc = [p \in Pids |-> "off"]
  /\ envProfile = [p \in Pids |-> None]
  /\ dirProfile = [p \in Pids |-> None]
  /\ currentTty = [p \in Pids |-> None]
  /\ state = [p \in Pids |-> EmptyTable]
  /\ dstate = [p \in Pids |-> EmptyTable]
  /\ ttyProfile = [p \in Pids |-> None]
  /\ profile = [p \in Pids |-> NoResult]
  /\ data = [p \in Pids |-> EmptyTable]
  /\ result = [p \in Pids |-> NoResult]
  /\ starts = 0
  /\ recalls = 0
  /\ overlap = {}
  /\ mapped = [p \in Pids |-> None]

NextStore ==
  \/ \E tty \in TtyIds : CallGetTtyProfile(tty)
  \/ \E tty \in TtyIds : \E key \in themes : CallSetTtyProfile(tty, key)
  \/ \E pid \in Pids : CallAssign(pid)
  \/ \E pid \in Pids : CallRemove(pid)

SpecStore == InitStore /\ [][NextStore]_vars

(* ---------------------------------------------------------------------- *)
(* The Theme Store: definition files, on-disk cache, in-memory copy        *)
(* ---------------------------------------------------------------------- *)

CACHE_VERSION == 1

\* Date.now() and the modification times run over 1..MaxClock; 0 is the
\* modification time of a directory without definition files
MaxClock == 2

\* a theme map without keys: {}
EmptyMap == [k \in {} |-> None]

\* the files of themes/: <<stem, extension>>
FileNames ==
  {<<"marine", ".yaml">>, <<"ghost", ".yml">>, <<"broken", ".yaml">>,
   <<"notes", ".txt">>}

FullSounds ==
  [announce |-> "announce.mp3", question |-> "question.mp3",
   idle |-> <<"idle.mp3">>, error |-> <<"error.mp3">>]

\* what a definition file holds: a YAML mapping with the keys it has, an
\* empty document, or text that is not YAML
YamlMap(d) == [kind |-> "map", data |-> d]
EmptyYaml == [kind |-> "empty", data |-> EmptyMap]
MalformedYaml == [kind |-> "malformed", data |-> EmptyMap]

MarineV1 ==
  YamlMap([name |-> "Marine", description |-> "v1", sounds |-> FullSounds])
MarineV2 ==
  YamlMap([name |-> "Marine", sounds |-> [announce |-> "hello.mp3"]])
GhostFile ==
  YamlMap([name |-> "Ghost", description |-> "", sounds |-> FullSounds])
NoSounds == YamlMap([name |-> "Broken", description |-> "no sounds"])
NoName == YamlMap([description |-> "no name", sounds |-> FullSounds])
EmptyName == YamlMap([name |-> "", sounds |-> FullSounds])

\* the contents each file takes
ContentsOf(f) ==
  CASE f[1] = "marine" -> {MarineV1, MarineV2}
    [] f[1] = "ghost" -> {GhostFile}
    [] f[1] = "broken" ->
         {NoSounds, NoName, EmptyName, EmptyYaml, MalformedYaml}
    [] OTHER -> {GhostFile}

NoFile == [present |-> FALSE, mtime |-> 0, content |-> EmptyYaml]
File(t, c) == [present |-> TRUE, mtime |-> t, content |-> c]

\* file.endsWith(".yaml") || file.endsWith(".yml")
isDefinition(f) == f[2] = ".yaml" \/ f[2] = ".yml"

\* readdirSync(THEMES_DIR): throws when the directory is missing
readdirSync(dir) == {f \in FileNames : dir.exists /\ dir.files[f].present}

RECURSIVE maxOf(_)
maxOf(S) ==
  IF S = {} THEN 0
  ELSE LET x == CHOOSE y \in S : TRUE
           m == maxOf(S \ {x})
       IN IF x > m THEN x ELSE m

getThemesModTime(dir) ==
  IF ~dir.exists THEN 0
  ELSE maxOf({dir.files[f].mtime : f \in {g \in readdirSync(dir) : isDefinition(g)}})

\* what loadCache returns: null, or the parsed cache
NoCache == [ok |-> FALSE, buildTime |-> 0, themes |-> EmptyMap]

\* a mutation of loadCache: the schema version is not compared
loadCacheAnyVersion(doc) ==
  IF doc.kind # "json" THEN NoCache
  ELSE [ok |-> TRUE, buildTime |-> doc.buildTime, themes |-> doc.themes]

loadCache(doc) ==
  IF doc.kind # "json" THEN NoCache
  ELSE IF doc.version # CACHE_VERSION THEN NoCache
  ELSE [ok |-> TRUE, buildTime |-> doc.buildTime, themes |-> doc.themes]

\* JSON.stringify of {version, buildTime: Date.now(), themes}
saveCache(map, t) ==
  [kind |-> "json", version |-> CACHE_VERSION, buildTime |-> t, themes |-> map]

\* parseYaml: throws on text that is not YAML, null for an empty document
parseYaml(content) ==
  [threw |-> content.kind = "malformed",
   null |-> content.kind = "empty",
   data |-> content.data]

\* v[k] || d, for a key whose value is a string or a list
orDefault(o, k, d) ==
  IF k \in DOMAIN o THEN (IF o[k] = "" THEN d ELSE o[k]) ELSE d

\* v[k] || [] for the two lists: a list, even an empty one, is kept
listOr(o, k) == IF k \in DOMAIN o THEN o[k] ELSE <<>>

NoTheme ==
  [name |-> "", description |-> "",
   sounds |-> [announce |-> "", question |-> "", idle |-> <<>>, error |-> <<>>]]

\* a mutation of loadThemeFromYaml: the sounds section is not required
loadThemeFromYamlLax(content) ==
  LET y == parseYaml(content)
      d == y.data
  IN IF y.threw \/ y.null THEN [ok |-> FALSE, theme |-> NoTheme]
     ELSE IF ~("name" \in DOMAIN d /\ d.name # "")
       THEN [ok |-> FALSE, theme |-> NoTheme]
     ELSE LET s == IF "sounds" \in DOMAIN d THEN d.sounds ELSE EmptyMap IN
       [ok |-> TRUE,
        theme |-> [name |-> d.name,
                   description |-> orDefault(d, "description", ""),
                   sounds |-> [announce |-> orDefault(s, "announce", ""),
                               question |-> orDefault(s, "question", ""),
                               idle |-> listOr(s, "idle"),
                               error |-> listOr(s, "error")]]]

\* null (ok = FALSE) for a file that cannot be parsed, that parses to null
\* (reading data.name throws, the catch returns null), or that lacks a
\* truthy name or a sounds section
loadThemeFromYaml(content) ==
  LET y == parseYaml(content)
      d == y.data
  IN IF y.threw \/ y.null THEN [ok |-> FALSE, theme |-> NoTheme]
     ELSE IF ~("name" \in DOMAIN d /\ d.name # "") \/ ~("sounds" \in DOMAIN d)
       THEN [ok |-> FALSE, theme |-> NoTheme]
     ELSE
       [ok |-> TRUE,
        theme |-> [name |-> d.name,
                   description |-> orDefault(d, "description", ""),
                   sounds |-> [announce |-> orDefault(d.sounds, "announce", ""),
                               question |-> orDefault(d.sounds, "question", ""),
                               idle |-> listOr(d.sounds, "idle"),
                               error |-> listOr(d.sounds, "error")]]]

\* keyed by basename(file, extension)
loadAllThemesFromYaml(dir) ==
  IF ~dir.exists THEN EmptyMap
  ELSE LET loaded == {f \in readdirSync(dir) :
                        isDefinition(f) /\ loadThemeFromYaml(dir.files[f].content).ok}
           fileOf(k) == CHOOSE f \in loaded : f[1] = k
       IN [k \in {f[1] : f \in loaded} |->
             loadThemeFromYaml(dir.files[fileOf(k)].content).theme]

Held(map) == [has |-> TRUE, themes |-> map]
NotHeld == [has |-> FALSE, themes |-> EmptyMap]

\* a mutation of cacheTrusted: the age of the cache is not looked at
cacheTrustedAnyAge(cache, themesModTime) == cache.ok

\* cache && cache.buildTime > themesModTime
cacheTrusted(cache, themesModTime) ==
  cache.ok /\ cache.buildTime > themesModTime

\* the locals cache and themesModTime of a call that read neither
NotRead == [cache |-> NoCache, themesModTime |-> 0]

\* a mutation of loadThemes: the in-memory copy is not consulted
loadThemesNoMemo(mem, doc, dir, t) ==
  LET cache == loadCache(doc)
      themesModTime == getThemesModTime(dir)
      read == [cache |-> cache, themesModTime |-> themesModTime]
  IN IF cacheTrusted(cache, themesModTime)
       THEN [value |-> cache.themes, mem |-> Held(cache.themes), file |-> doc,
             path |-> "cache", read |-> read]
     ELSE LET built == loadAllThemesFromYaml(dir) IN
       [value |-> built, mem |-> Held(built), file |-> saveCache(built, t),
        path |-> "yaml", read |-> read]

\* the value returned, the in-memory copy and the cache file after the call,
\* the branch that returned, and what the call read of the cache and of the
\* modification times
loadThemes(mem, doc, dir, t) ==
  IF mem.has
    THEN [value |-> mem.themes, mem |-> mem, file |-> doc, path |-> "memory",
          read |-> NotRead]
  ELSE
    LET cache == loadCache(doc)
        themesModTime == getThemesModTime(dir)
        read == [cache |-> cache, themesModTime |-> themesModTime]
    IN IF cacheTrusted(cache, themesModTime)
         THEN [value |-> cache.themes, mem |-> Held(cache.themes), file |-> doc,
               path |-> "cache", read |-> read]
       ELSE LET built == loadAllThemesFromYaml(dir) IN
         [value |-> built, mem |-> Held(built), file |-> saveCache(built, t),
          path |-> "yaml", read |-> read]

reloadThemes(dir, t) ==
  LET built == loadAllThemesFromYaml(dir) IN
    [value |-> built, mem |-> Held(built), file |-> saveCache(built, t),
     path |-> "yaml", read |-> NotRead]

\* Object.keys(loadThemes())
getThemeNames(mem, doc, dir, t) == DOMAIN loadThemes(mem, doc, dir, t).value

LoadThemes ==
  /\ LET r == loadThemes(cachedThemes, cacheFile, themesDir, clock) IN
       /\ cachedThemes' = r.mem
       /\ cacheFile' = r.file
       /\ outcome' = [op |-> "loadThemes", threw |-> FALSE, value |-> r.value,
                      path |-> r.path, read |-> r.read]
       /\ firstLoad' = IF firstLoad.has THEN firstLoad ELSE Held(r.value)
  /\ UNCHANGED <<themesDir, clock>>
  /\ UNCHANGED <<world, ttyFile, instFile>>
  /\ UNCHANGED <<assignVars, alertVars, plugin, sideVars>>

ReloadThemes ==
  /\ LET r == reloadThemes(themesDir, clock) IN
       /\ cachedThemes' = r.mem
       /\ cacheFile' = r.file
       /\ outcome' = [op |-> "reloadThemes", threw |-> FALSE, value |-> r.value,
                      path |-> r.path, read |-> r.read]
       /\ firstLoad' = Held(r.value)
  /\ UNCHANGED <<themesDir, clock>>
  /\ UNCHANGED <<world, ttyFile, instFile>>
  /\ UNCHANGED <<assignVars, alertVars, plugin, sideVars>>

\* the files that are written while the program runs
Edited == {<<"marine", ".yaml">>, <<"notes", ".txt">>}

\* somebody writes a file of the directory
EditFile(f, c) ==
  /\ themesDir.exists
  /\ themesDir.files[f] # File(clock, c)
  /\ themesDir' = [themesDir EXCEPT !.files[f] = File(clock, c)]
  /\ UNCHANGED <<cacheFile, cachedThemes, firstLoad, clock, outcome>>
  /\ UNCHANGED <<world, ttyFile, instFile>>
  /\ UNCHANGED <<assignVars, alertVars, plugin, sideVars>>

\* somebody deletes a file of the directory
DeleteFile(f) ==
  /\ themesDir.exists
  /\ themesDir.files[f].present
  /\ themesDir' = [themesDir EXCEPT !.files[f] = NoFile]
  /\ UNCHANGED <<cacheFile, cachedThemes, firstLoad, clock, outcome>>
  /\ UNCHANGED <<world, ttyFile, instFile>>
  /\ UNCHANGED <<assignVars, alertVars, plugin, sideVars>>

\* the cache file is deleted, truncated, or left by an older release
BadCaches ==
  {[kind |-> "missing", version |-> 0, buildTime |-> 0, themes |-> EmptyMap],
   [kind |-> "garbage", version |-> 0, buildTime |-> 0, themes |-> EmptyMap],
   [kind |-> "json", version |-> 0, buildTime |-> MaxClock, themes |-> EmptyMap]}

SpoilCache(doc) ==
  /\ cacheFile # doc
  /\ cacheFile' = doc
  /\ UNCHANGED <<themesDir, cachedThemes, firstLoad, clock, outcome>>
  /\ UNCHANGED <<world, ttyFile, instFile>>
  /\ UNCHANGED <<assignVars, alertVars, plugin, sideVars>>

\* time passes
Pass ==
  /\ clock < MaxClock
  /\ clock' = clock + 1
  /\ UNCHANGED <<themesDir, cacheFile, cachedThemes, firstLoad, outcome>>
  /\ UNCHANGED <<world, ttyFile, instFile>>
  /\ UNCHANGED <<assignVars, alertVars, plugin, sideVars>>

\* the process ends and another one starts: the module variable is null again
Restart ==
  /\ cachedThemes.has
  /\ cachedThemes' = NotHeld
  /\ firstLoad' = NotHeld
  /\ outcome' = [op |-> None, threw |-> FALSE, value |-> None]
  /\ UNCHANGED <<themesDir, cacheFile, clock>>
  /\ UNCHANGED <<world, ttyFile, instFile>>
  /\ UNCHANGED <<assignVars, alertVars, plugin, sideVars>>

\* the directories a process finds: none, or one whose files were written
\* before the process started
InitDirs ==
  {[exists |-> FALSE, files |-> [f \in FileNames |-> NoFile]]}
  \cup
  {[exists |-> TRUE, files |-> fs] :
     fs \in {g \in [FileNames -> {NoFile} \cup {File(1, c) : c \in
                      {MarineV1, GhostFile, NoSounds, NoName, EmptyName,
                       EmptyYaml, MalformedYaml}}] :
               \A f \in FileNames :
                 g[f].present => g[f].content \in ContentsOf(f) \ {MarineV2}}}

\* no process has started
AssignOff ==
  /\ themes = InitFiles[1].themes
  /\ ttyProfiles = InitFiles[1].ttyProfiles
  /\ now = 0
  /\ ticks = 0
  /\ instances = EmptyTable
  /\ pc = [p \in Pids |-> "off"]
  /\ envProfile = [p \in Pids |-> None]
  /\ dirProfile = [p \in Pids |-> None]
  /\ currentTty = [p \in Pids |-> None]
  /\ state = [p \in Pids |-> EmptyTable]
  /\ dstate = [p \in Pids |-> EmptyTable]
  /\ ttyProfile = [p \in Pids |-> None]
  /\ profile = [p \in Pids |-> NoResult]
  /\ data = [p \in Pids |-> EmptyTable]
  /\ result = [p \in Pids |-> NoResult]
  /\ starts = 0
  /\ recalls = 0
  /\ overlap = {}
  /\ mapped = [p \in Pids |-> None]

InitThemes ==
  /\ themesDir \in InitDirs
  /\ cacheFile \in BadCaches
  /\ cachedThemes = NotHeld
  /\ firstLoad = NotHeld
  /\ clock = 1
  /\ world = [faults |-> {}]
  /\ ttyFile = [kind |-> "missing", key |-> None, entries |-> <<>>]
  /\ instFile = [kind |-> "missing", key |-> None, entries |-> <<>>]
  /\ outcome = [op |-> None, threw |-> FALSE, value |-> None]
  /\ PluginOff
  /\ AlertOff
  /\ AssignOff

NextThemes ==
  \/ LoadThemes
  \/ ReloadThemes
  \/ \E f \in Edited : \E c \in ContentsOf(f) : EditFile(f, c)
  \/ \E f \in FileNames : DeleteFile(f)
  \/ \E doc \in BadCaches : SpoilCache(doc)
  \/ Pass
  \/ Restart

SpecThemes == InitThemes /\ [][NextThemes]_vars

(* ---------------------------------------------------------------------- *)
(* The plugin function: start, theme switch, hooks, exit                   *)
(* ---------------------------------------------------------------------- *)

\* INSTANCE_ID of the process that is followed
Self == 1

\* the hooks of the object the plugin function returns when it starts
AllHooks == {"tool", "event", "tool.execute.before", "tui.command.execute"}

\* process.on(...) of the cleanup
Handlers == {"exit", "SIGINT", "SIGTERM"}

\* properties every object inherits from Object.prototype
ObjectPrototype == {"constructor", "toString"}

\* themes[key] for a theme map with the keys store: a theme record, a value
\* inherited from Object.prototype, or undefined
lookup(store, key) ==
  IF key \in store THEN "theme"
  ELSE IF key \in ObjectPrototype THEN "inherited"
  ELSE "undefined"

\* keys a caller asks switchTheme for
SwitchKeys == ThemeKeys \cup {"nonexistent", "constructor"}

\* the plugin function has not run in this process
PluginIdle ==
  [pos |-> "off", currentThemeKey |-> None, tty |-> None,
   hooks |-> {}, handlers |-> {}, played |-> {}]

\* themeNames.length === 0
noThemes(themeNames) == themeNames = {}

\* a mutation of returned: the hooks are returned in every case
returnedAlways(started) == AllHooks

\* what the plugin function returns: the hooks, or {} from an early return
returned(started) == IF started THEN AllHooks ELSE {}

\* the plugin function, from its first line to its return, in a process
\* whose OCSFX_PROFILE is e, .ocsfx is f and terminal is tty; pick is the
\* theme the random tier would draw, exists tells whether the announce
\* sound is a file of the sounds directory
OpenCodeSFX ==
  /\ plugin.pos = "off"
  /\ \E e \in EnvValues, f \in FileValues, tty \in TtyIds \cup {None},
        pick \in ThemeKeys, exists \in BOOLEAN :
       IF noThemes(themes)
       THEN /\ plugin' = [plugin EXCEPT !.pos = "disabled", !.tty = tty,
                                        !.hooks = returned(FALSE)]
            /\ outcome' = [op |-> "OpenCodeSFX", threw |-> FALSE,
                           value |-> "No themes found"]
            /\ UNCHANGED <<instFile, ttyFile>>
       ELSE
         LET r == assignThemeToInstance(instFile, ttyFile, Self, e, f, tty,
                                        pick, now, themes) IN
           IF r.threw
           THEN /\ plugin' = [plugin EXCEPT !.pos = "failed", !.tty = tty]
                /\ outcome' = [op |-> "OpenCodeSFX", threw |-> TRUE,
                               value |-> None]
                /\ UNCHANGED <<instFile, ttyFile>>
           ELSE
             /\ instFile' = r.inst
             /\ ttyFile' = r.tty
             /\ CASE lookup(themes, r.value.theme) = "undefined" ->
                       /\ plugin' = [plugin EXCEPT
                                       !.pos = "disabled", !.tty = tty,
                                       !.currentThemeKey = r.value.theme,
                                       !.hooks = returned(FALSE)]
                       /\ outcome' = [op |-> "OpenCodeSFX", threw |-> FALSE,
                                      value |-> "Theme not found"]
                  [] lookup(themes, r.value.theme) = "inherited" ->
                       /\ plugin' = [plugin EXCEPT
                                       !.pos = "failed", !.tty = tty,
                                       !.currentThemeKey = r.value.theme]
                       /\ outcome' = [op |-> "OpenCodeSFX", threw |-> TRUE,
                                      value |-> None]
                  [] OTHER ->
                       /\ plugin' = [plugin EXCEPT
                                       !.pos = "running", !.tty = tty,
                                       !.currentThemeKey = r.value.theme,
                                       !.hooks = returned(TRUE),
                                       !.handlers = Handlers,
                                       !.played = IF exists THEN {"startup"}
                                                  ELSE {}]
                       /\ outcome' = [op |-> "OpenCodeSFX", threw |-> FALSE,
                                      value |-> r.value]
  /\ UNCHANGED world
  /\ UNCHANGED <<assignVars, alertVars, storeVars, sideVars>>

\* switchTheme(newThemeKey), called by the sfx_change_theme tool
SwitchTheme(newThemeKey) ==
  /\ plugin.pos = "running"
  /\ "tool" \in plugin.hooks
  /\ \E exists \in BOOLEAN :
       LET newTheme == lookup(themes, newThemeKey) IN
         IF newTheme = "undefined"
         THEN /\ outcome' = [op |-> "switchTheme", threw |-> FALSE,
                             value |-> [success |-> FALSE, key |-> newThemeKey]]
              /\ UNCHANGED <<plugin, ttyFile>>
         ELSE
           LET saved == IF plugin.tty # None
                        THEN setTtyProfileFile(ttyFile, plugin.tty, newThemeKey)
                        ELSE [threw |-> FALSE, file |-> ttyFile] IN
             /\ ttyFile' = saved.file
             /\ IF saved.threw \/ newTheme = "inherited"
                THEN \* setTtyProfile, or reading currentTheme.sounds.announce
                     \* of a value that is no theme, throws
                     /\ plugin' = [plugin EXCEPT !.currentThemeKey = newThemeKey]
                     /\ outcome' = [op |-> "switchTheme", threw |-> TRUE,
                                    value |-> [success |-> FALSE,
                                               key |-> newThemeKey]]
                ELSE /\ plugin' = [plugin EXCEPT
                                     !.currentThemeKey = newThemeKey,
                                     !.played = IF exists
                                                THEN @ \cup {"theme.switch"}
                                                ELSE @]
                     /\ outcome' = [op |-> "switchTheme", threw |-> FALSE,
                                    value |-> [success |-> TRUE,
                                               key |-> newThemeKey]]
  /\ UNCHANGED <<world, instFile>>
  /\ UNCHANGED <<assignVars, alertVars, storeVars, sideVars>>

\* the host calls one of the other hooks; the hook invokes the player or not
Deliver(h) ==
  /\ plugin.pos = "running"
  /\ h \in plugin.hooks
  /\ h # "tool"
  /\ \E sound \in BOOLEAN :
       plugin' = [plugin EXCEPT !.played = IF sound THEN @ \cup {h} ELSE @]
  /\ plugin' # plugin
  /\ UNCHANGED <<world, ttyFile, instFile, outcome>>
  /\ UNCHANGED <<assignVars, alertVars, storeVars, sideVars>>

\* the process ends: the cleanup runs when it was installed
ProcessExit ==
  /\ plugin.pos \in {"running", "disabled", "failed"}
  /\ plugin' = [plugin EXCEPT !.pos = "exited"]
  /\ IF "exit" \in plugin.handlers
     THEN LET r == removeInstanceFile(instFile, Self) IN
            /\ instFile' = r.file
            /\ outcome' = [op |-> "removeInstance", threw |-> r.threw,
                           value |-> Self]
     ELSE UNCHANGED <<instFile, outcome>>
  /\ UNCHANGED <<world, ttyFile>>
  /\ UNCHANGED <<assignVars, alertVars, storeVars, sideVars>>

\* the host is started again, with a process of the same pid
Relaunch ==
  /\ plugin.pos = "exited"
  /\ plugin' = PluginIdle
  /\ outcome' = [op |-> None, threw |-> FALSE, value |-> None]
  /\ UNCHANGED <<world, ttyFile, instFile>>
  /\ UNCHANGED <<assignVars, alertVars, storeVars, sideVars>>

\* the two files as processes that ran before have left them
PluginTtyDocs ==
  {Missing, JsonObject("profiles", <<>>),
   JsonObject("profiles", <<<<"term:A", "ghost">>, <<"term:B", "marine">>>>)}

PluginInstDocs ==
  {Missing, JsonObject("instances", <<>>),
   JsonObject("instances",
              <<<<2, [theme |-> "marine", startedAt |-> toISOString(EvictNow)]>>>>)}

\* the Theme Stores a process may find: empty, or holding two themes
PluginStores == {{}, {"marine", "ghost"}}

InitPlugin ==
  /\ PluginOff
  /\ themes \in PluginStores
  /\ ttyFile \in PluginTtyDocs
  /\ instFile \in PluginInstDocs
  /\ world = [faults |-> {}]
  /\ outcome = [op |-> None, threw |-> FALSE, value |-> None]
  /\ StoreOff
  /\ AlertOff
  /\ ttyProfiles = InitFiles[1].ttyProfiles
  /\ now = EvictNow
  /\ ticks = 0
  /\ instances = EmptyTable
  /\ pc = [p \in Pids |-> "off"]
  /\ envProfile = [p \in Pids |-> None]
  /\ dirProfile = [p \in Pids |-> None]
  /\ currentTty = [p \in Pids |-> None]
  /\ state = [p \in Pids |-> EmptyTable]
  /\ dstate = [p \in Pids |-> EmptyTable]
  /\ ttyProfile = [p \in Pids |-> None]
  /\ profile = [p \in Pids |-> NoResult]
  /\ data = [p \in Pids |-> EmptyTable]
  /\ result = [p \in Pids |-> NoResult]
  /\ starts = 0
  /\ recalls = 0
  /\ overlap = {}
  /\ mapped = [p \in Pids |-> None]

NextPlugin ==
  \/ OpenCodeSFX
  \/ \E key \in SwitchKeys : SwitchTheme(key)
  \/ \E h \in AllHooks : Deliver(h)
  \/ ProcessExit
  \/ Relaunch

SpecPlugin == InitPlugin /\ [][NextPlugin]_vars

(* ---------------------------------------------------------------------- *)
(* The TTY Identifier                                                      *)
(* ---------------------------------------------------------------------- *)

\* number of getTtyIdentifier calls made under one environment
MaxCalls == 2

\* an external command failed or timed out
Failed == "failed"

\* process.env.TMUX as its comma-separated fields
TmuxValues == {None, <<"/tmp/tmux-501/default", "4242", "0">>, <<"default">>}

\* process.env.WEZTERM_UNIX_SOCKET as its path components
SocketValues == {None, <<"run", "gui-sock-77">>}

\* the environments of a process: variables, and whether stdin is a terminal
Environments ==
  [TERM_SESSION_ID : {None, "w0t1"},
   ITERM_SESSION_ID : {None, "w0t1p0"},
   TMUX : TmuxValues,
   TMUX_PANE : {None, "%3"},
   WEZTERM_PANE : {None, "5"},
   WEZTERM_UNIX_SOCKET : SocketValues,
   isTTY : BOOLEAN,
   WINDOWID : {None, "1234"}]

\* what `tmux display-message -p '#{start_time}'` prints, trimmed
StartTimes == {"1700000000", "", Failed}

\* what `tty` prints, trimmed
TtyPaths == {"/dev/ttys004", "not a tty", Failed}

\* the identifier as the sequence of its parts, which the code joins with
\* "+"; the empty sequence is null.  startProbe and ttyProbe are the answers
\* of the two external commands to this call
getTtyIdentifier(env, startProbe, ttyProbe) ==
  LET term == IF env.TERM_SESSION_ID # None
              THEN <<<<"term", env.TERM_SESSION_ID>>>> ELSE <<>>
      iterm == IF env.ITERM_SESSION_ID # None
               THEN <<<<"iterm", env.ITERM_SESSION_ID>>>> ELSE <<>>
      serverPid == IF env.TMUX # None /\ Len(env.TMUX) >= 2
                   THEN env.TMUX[2] ELSE "unknown"
      startTime == IF startProbe = Failed THEN "" ELSE startProbe
      tmux == IF env.TMUX # None /\ env.TMUX_PANE # None
              THEN IF startTime # ""
                   THEN <<<<"tmux", serverPid, startTime, env.TMUX_PANE>>>>
                   ELSE <<<<"tmux", serverPid, env.TMUX_PANE>>>>
              ELSE <<>>
      socketId == IF env.WEZTERM_UNIX_SOCKET = None THEN ""
                  ELSE env.WEZTERM_UNIX_SOCKET[Len(env.WEZTERM_UNIX_SOCKET)]
      wez == IF env.WEZTERM_PANE # None
             THEN <<<<"wezterm", socketId, env.WEZTERM_PANE>>>> ELSE <<>>
      parts == term \o iterm \o tmux \o wez
  IN IF Len(parts) > 0 THEN parts
     ELSE IF env.isTTY /\ ttyProbe \notin {Failed, "", "not a tty"}
       THEN <<<<"tty", ttyProbe>>>>
     ELSE IF env.WINDOWID # None THEN <<<<"x11", env.WINDOWID>>>>
     ELSE <<>>

\* one call: the commands answer this call as the terminal has them answer,
\* or fail
Identify(startProbe, ttyProbe) ==
  /\ Len(ident.ids) < MaxCalls
  /\ ident' = [ident EXCEPT
                 !.ids = Append(@, [id |-> getTtyIdentifier(ident.env, startProbe,
                                                            ttyProbe),
                                    start |-> startProbe, tty |-> ttyProbe])]
  /\ UNCHANGED hook
  /\ UNCHANGED <<world, ttyFile, instFile, outcome>>
  /\ UNCHANGED <<assignVars, alertVars, storeVars, plugin>>

\* a process in one environment, attached to one terminal: the tmux server
\* has one start time and the terminal device one path
InitIdentify ==
  /\ ident \in [env : Environments, ids : {<<>>}]
  /\ hook = [pos |-> "off"]
  /\ plugin = [pos |-> "off", currentThemeKey |-> None, tty |-> None,
               hooks |-> {}, handlers |-> {}, played |-> {}]
  /\ world = [faults |-> {}]
  /\ ttyFile = [kind |-> "missing", key |-> None, entries |-> <<>>]
  /\ instFile = [kind |-> "missing", key |-> None, entries |-> <<>>]
  /\ outcome = [op |-> None, threw |-> FALSE, value |-> None]
  /\ StoreOff
  /\ AlertOff
  /\ AssignOff

NextIdentify ==
  \E startProbe \in {"1700000000", Failed}, ttyProbe \in {"/dev/ttys004", Failed} :
    Identify(startProbe, ttyProbe)

SpecIdentify == InitIdentify /\ [][NextIdentify]_vars

(* ---------------------------------------------------------------------- *)
(* The event handler and the tool hook: which sound is requested           *)
(* ---------------------------------------------------------------------- *)

\* values Math.random() is drawn from, as the index it selects in a list of
\* MaxPick items
MaxPick == 2

\* a theme value that is a list of file names, and one that is a string:
\* indexing a string yields its characters, its length is their number
List(items) == [list |-> TRUE, items |-> items]
String(chars) == [list |-> FALSE, items |-> chars]

\* the sounds of the current theme
HookThemes ==
  [idle : {List(<<>>), List(<<"idle1.mp3", "idle2.mp3">>)},
   question : {List(<<"q.mp3">>), String(<<"q", ".", "m", "p", "3">>),
               String(<<>>)},
   error : {List(<<"err.mp3">>)}]

\* the files SOUNDS_DIR may hold
SoundFiles == {"idle1.mp3", "q.mp3", "err.mp3", "q"}

\* event.type of the events the host delivers
EventTypes ==
  {"session.idle", "permission.asked", "session.error", "tui.command.execute",
   "command.executed", "message.updated"}

\* what client.session.get answers for the session of a session.idle event:
\* the event names no session, the session has no parent, it has one, the
\* call throws, the answer carries no data
Sessions == {"absent", "root", "child", "throws", "nodata"}

\* input.tool of tool.execute.before
Tools == {"question", "mcp_question", "bash"}

NoRequest == [category |-> None, file |-> None, event |-> None]

\* randomSound: null for an empty value, else the item Math.random() selects
randomSound(sounds, r) ==
  IF Len(sounds.items) = 0 THEN None
  ELSE sounds.items[((r - 1) % Len(sounds.items)) + 1]

\* if (soundFile) { if (existsSync(join(SOUNDS_DIR, soundFile))) playSound(...) }
request(category, soundFile, files, eventType) ==
  IF soundFile # None /\ soundFile \in files
  THEN [category |-> category, file |-> soundFile, event |-> eventType]
  ELSE NoRequest

\* a mutation of isSubAgent: no session counts as a sub-agent session
isSubAgentNever(session) == FALSE

\* session.data?.parentID of the answer of client.session.get
isSubAgent(session) == session = "child"

\* the playSound call the event handler makes for an event, if any
onEvent(theme, files, eventType, session, r) ==
  IF eventType = "command.executed" THEN NoRequest
  ELSE IF eventType = "session.idle"
    THEN IF session # "absent" /\ session # "throws" /\ isSubAgent(session)
         THEN NoRequest
         ELSE request("idle", randomSound(theme.idle, r), files, eventType)
  ELSE IF eventType = "permission.asked"
    THEN request("question", randomSound(theme.question, r), files, eventType)
  ELSE IF eventType = "session.error"
    THEN request("error", randomSound(theme.error, r), files, eventType)
  ELSE NoRequest

\* the playSound call tool.execute.before makes for a tool, if any
onTool(theme, files, tool, r) ==
  IF tool = "mcp_question" \/ tool = "question"
  THEN request("question", randomSound(theme.question, r), files, "tool.question")
  ELSE NoRequest

\* the host delivers an event
Event(eventType, session, r) ==
  /\ hook.pos = "on"
  /\ hook' = [hook EXCEPT
                !.last = [hook |-> "event", type |-> eventType,
                          session |-> session, pick |-> r],
                !.request = onEvent(hook.theme, hook.files, eventType, session, r)]
  /\ UNCHANGED ident
  /\ UNCHANGED <<world, ttyFile, instFile, outcome>>
  /\ UNCHANGED <<assignVars, alertVars, storeVars, plugin>>

\* the host announces a tool call
ToolBefore(tool, r) ==
  /\ hook.pos = "on"
  /\ hook' = [hook EXCEPT
                !.last = [hook |-> "tool.execute.before", type |-> tool,
                          session |-> "absent", pick |-> r],
                !.request = onTool(hook.theme, hook.files, tool, r)]
  /\ UNCHANGED ident
  /\ UNCHANGED <<world, ttyFile, instFile, outcome>>
  /\ UNCHANGED <<assignVars, alertVars, storeVars, plugin>>

InitHook ==
  /\ hook \in [pos : {"on"}, theme : HookThemes, files : SUBSET SoundFiles,
               last : {[hook |-> None, type |-> None, session |-> "absent",
                        pick |-> 1]},
               request : {NoRequest}]
  /\ ident = [env |-> None, ids |-> <<>>]
  /\ plugin = [pos |-> "off", currentThemeKey |-> None, tty |-> None,
               hooks |-> {}, handlers |-> {}, played |-> {}]
  /\ world = [faults |-> {}]
  /\ ttyFile = [kind |-> "missing", key |-> None, entries |-> <<>>]
  /\ instFile = [kind |-> "missing", key |-> None, entries |-> <<>>]
  /\ outcome = [op |-> None, threw |-> FALSE, value |-> None]
  /\ StoreOff
  /\ AlertOff
  /\ AssignOff

NextHook ==
  \/ \E eventType \in EventTypes, r \in 1..MaxPick :
       \E session \in (IF eventType = "session.idle" THEN Sessions ELSE {"absent"}) :
         Event(eventType, session, r)
  \/ \E tool \in Tools, r \in 1..MaxPick : ToolBefore(tool, r)

SpecHook == InitHook /\ [][NextHook]_vars

(* ---------------------------------------------------------------------- *)
(* Properties                                                              *)
(* ---------------------------------------------------------------------- *)
\* the caller has left tiers 1-3 of determineProfile
afterDetermine(p) == pc[p] \in {"random", "setTty", "saveTty", "register"}

\* x is absent, or names a theme of the Theme Store
AbsentOrValid(x) == x = None \/ x \in themes

\* themes held by the records of a table
RecordedThemes(st) == {st[q].theme : q \in DOMAIN st}

\* age of the record of pid q in the persisted table
Age(q) == now - getTime(instances[q].startedAt)

\* the caller saw no env value, no .ocsfx file and no mapping for its terminal
NoOverride(p) ==
  envProfile[p] = None /\ dirProfile[p] = None /\ ttyProfile[p] = None

\* C1: when the env value, the .ocsfx value and the TTY-mapping value that
\* determineProfile sees each name an existing theme or are absent, its
\* result is the env value with source env if that is present, else the file
\* value with source file if present, else the mapping value with source tty;
\* it goes on to the random tier only when none of the three is present.
C1_Priority ==
  \A p \in Pids :
    ( /\ afterDetermine(p)
      /\ AbsentOrValid(envProfile[p])
      /\ AbsentOrValid(dirProfile[p])
      /\ AbsentOrValid(ttyProfile[p]) )
    => IF envProfile[p] # None
       THEN pc[p] = "register"
            /\ profile[p] = [theme |-> envProfile[p], source |-> "env"]
       ELSE IF dirProfile[p] # None
       THEN pc[p] = "register"
            /\ profile[p] = [theme |-> dirProfile[p], source |-> "file"]
       ELSE IF ttyProfile[p] # None
       THEN pc[p] = "register"
            /\ profile[p] = [theme |-> ttyProfile[p], source |-> "tty"]
       ELSE pc[p] = "random" \/ profile[p].source = "random"

\* a call with three different valid values (env, file, and a mapping for
\* its terminal) that is about to return the env value
C1_Witness ==
  \E p \in Pids :
    /\ pc[p] = "register"
    /\ envProfile[p] \in themes
    /\ dirProfile[p] \in themes
    /\ dirProfile[p] # envProfile[p]
    /\ currentTty[p] # None
    /\ Lookup(ttyProfiles, currentTty[p]) \in themes
    /\ profile[p] = [theme |-> envProfile[p], source |-> "env"]

\* C2: a newly started process whose OCSFX_PROFILE names an existing theme
\* gets that theme with source env from assignThemeToInstance, whatever the
\* Instance Table, the .ocsfx file and the mapping hold.
C2_EnvForces ==
  [][\A p \in Pids :
       ( /\ pc[p] \in {"init", "register"}
         /\ pc'[p] = "running"
         /\ envProfile[p] \in themes )
       => result'[p] = [theme |-> envProfile[p], source |-> "env"]]_vars

\* C3: a value naming a key absent from the Theme Store never becomes the
\* result; determineProfile goes on to the next tier, and the key it returns
\* is a member of the Theme Store.
C3_Fallthrough ==
  \A p \in Pids :
    /\ afterDetermine(p) =>
         /\ profile[p].source # None => profile[p].theme \in themes
         /\ envProfile[p] \notin themes =>
              /\ profile[p].source # "env"
              /\ dirProfile[p] \in themes =>
                   /\ pc[p] = "register"
                   /\ profile[p] = [theme |-> dirProfile[p], source |-> "file"]
         /\ (envProfile[p] \notin themes /\ dirProfile[p] \notin themes) =>
              /\ profile[p].source \notin {"env", "file"}
              /\ ttyProfile[p] \in themes =>
                   /\ pc[p] = "register"
                   /\ profile[p] = [theme |-> ttyProfile[p], source |-> "tty"]
              /\ ttyProfile[p] \notin themes =>
                   pc[p] = "random" \/ profile[p].source = "random"
    /\ (pc[p] = "running" /\ result[p].source # "instance") =>
         result[p].theme \in themes

\* a call that saw an env value, a file value and a mapping value, none of
\* them naming a theme, and is about to return a theme of the store
C3_Witness ==
  \E p \in Pids :
    /\ pc[p] = "register"
    /\ envProfile[p] # None /\ envProfile[p] \notin themes
    /\ dirProfile[p] # None /\ dirProfile[p] \notin themes
    /\ ttyProfile[p] # None /\ ttyProfile[p] \notin themes
    /\ profile[p].source = "random"
    /\ profile[p].theme \in themes

\* C4: the key picked by the random tier is a theme of the store, and when
\* some theme is held by no non-stale record of the table the tier read, the
\* picked key is held by none of those records.
C4_RandomPick ==
  \A p \in Pids :
    profile[p].source = "random" =>
      /\ profile[p].theme \in themes
      /\ \A q \in DOMAIN dstate[p] :
           now - getTime(dstate[p][q].startedAt) <= maxAge
      /\ (themes \ RecordedThemes(dstate[p]) # {}) =>
           profile[p].theme \notin RecordedThemes(dstate[p])

\* a random pick made from a table with a non-stale record of another
\* process and a theme left free: the pick avoids the recorded theme
C4_Witness ==
  \E p \in Pids :
    /\ profile[p].source = "random"
    /\ dstate[p] # EmptyTable
    /\ themes \ RecordedThemes(dstate[p]) # {}
    /\ profile[p].theme \notin RecordedThemes(dstate[p])

\* the scenario of two processes: A and B are the only processes started so
\* far, A has returned with a random pick and B, whose call began after A's
\* returned, has seen no override and is about to return
Scenario1(A, B) ==
  /\ A # B
  /\ Cardinality(themes) = 2
  /\ starts = 2
  /\ pc[A] = "running"
  /\ result[A].source = "random"
  /\ pc[B] = "register"
  /\ NoOverride(B)
  /\ {A, B} \notin overlap

\* the first process of a run, having seen no override, ends in the random
\* tier, and the table holds one entry once it has returned
Scenario1First(A) ==
  /\ (starts = 1 /\ Cardinality(themes) = 2 /\ pc[A] = "register" /\ NoOverride(A))
       => profile[A].source = "random"
  /\ (starts = 1 /\ pc[A] = "running" /\ result[A].source = "random")
       => DOMAIN instances = {A}

C7_Reentry ==
  [][\A p \in Pids :
       ( /\ Reassign(p)
         /\ hasOwnRecord(instances, p)
         /\ Age(p) <= maxAge )
       => /\ result'[p] = [theme |-> result[p].theme, source |-> "instance"]
          /\ instances' = instances
          /\ ttyProfiles' = ttyProfiles]_vars

\* C8: every process that has completed assignThemeToInstance, has not
\* exited and started less than 24 hours ago has a record under its pid.
C8_Registered ==
  \A p \in Pids :
    (pc[p] = "running" /\ now < maxAge) => p \in DOMAIN instances

C10_Clobber ==
  [][\A p \in Pids :
       /\ (pc[p] \in {"removing", "sigRemoving"} /\ pc'[p] # pc[p])
            => p \notin DOMAIN instances'
       /\ ( /\ pc[p] = "exited" /\ pc'[p] = "exited"
            /\ p \notin DOMAIN instances
            /\ p \in DOMAIN instances' )
          => \E q \in Pids \ {p} :
               /\ pc[q] \in {"register", "removing", "sigRemoving"}
               /\ pc'[q] # pc[q]
               /\ p \in DOMAIN state[q]]_vars

\* the record of a process is in the table after its removeInstance returned
C10_Witness ==
  \E p \in Pids : pc[p] = "exited" /\ p \in DOMAIN instances

\* C11: the record of a process that no longer runs is gone from
\* instances.json once a call that began after the record turned 24 hours
\* old has registered (the table a call registers holds no stale record),
\* and once such a call has registered (its record is in the table, started
\* more than 24 hours after the stale one) no write puts the stale record
\* back.
C11_SelfHeal ==
  [][\A p \in Pids :
       /\ (pc[p] = "register" /\ pc'[p] = "running") =>
            \A q \in DOMAIN instances' :
              now - getTime(instances'[q].startedAt) <= maxAge
       /\ ~ ( /\ p \in DOMAIN instances'
              /\ now' - getTime(instances'[p].startedAt) > maxAge
              /\ ~(p \in DOMAIN instances /\ instances[p] = instances'[p])
              /\ pc[p] \in {"off", "exited"} \/ p \in DOMAIN instances
              /\ \E r \in DOMAIN instances :
                   getTime(instances[r].startedAt)
                     - getTime(instances'[p].startedAt) > maxAge )]_vars

\* C12: the table cleanupStaleInstances leaves holds exactly the records of
\* the loaded table whose startedAt is not more than 24 hours before now,
\* each one unchanged; the caller's own record is found only if it is one
\* of them.
C12_Eviction ==
  \A p \in Pids :
    /\ pc[p] = "determine" =>
         state[p] = [q \in {r \in DOMAIN instances : Age(r) <= maxAge}
                       |-> instances[q]]
    /\ pc[p] = "running" => (p \in DOMAIN instances /\ Age(p) <= maxAge)

\* a pass over a table with a record started 24 hours and one second ago
\* and a record started one second ago: the first is removed, the second kept
C12_Witness ==
  \E p, q \in Pids :
    /\ pc[p] = "determine"
    /\ p \in DOMAIN instances /\ Age(p) = maxAge + 1000
    /\ q \in DOMAIN instances /\ Age(q) = 1000
    /\ DOMAIN state[p] = {q}
    /\ state[p][q] = instances[q]

\* the steps of assignThemeToInstance and removeInstance that p itself takes
OwnStep(p) ==
  \/ AssignLoad(p) \/ Determine(p) \/ DetermineRandom(p) \/ SetTtyLoad(p)
  \/ SetTtySave(p) \/ Register(p) \/ RemoveLoad(p) \/ RemoveSave(p)

\* p is inside assignThemeToInstance or inside the cleanup that runs
\* removeInstance
InOperation(p) ==
  pc[p] \in {"init", "determine", "random", "setTty", "saveTty", "register",
             "sigRemoving", "exiting", "removing"}

\* the largest number of own steps left before the operation returns
StepsLeft(at) ==
  CASE at = "init" -> 6
    [] at = "determine" -> 5
    [] at = "random" -> 4
    [] at = "setTty" -> 3
    [] at = "saveTty" -> 2
    [] at = "register" -> 1
    [] at = "sigRemoving" -> 3
    [] at = "exiting" -> 2
    [] at = "removing" -> 1
    [] OTHER -> 0

Calls(l) == {l[i] : i \in DOMAIN l}

\* every tmux command of the handler succeeded
Succeeded(l) == "nameErr" \notin Calls(l) /\ "renameErr" \notin Calls(l)

\* the window name carries the alert prefix
Prefixed(name) == startsWith(name, ALERT_PREFIX)

\* the instance runs in a tmux pane it can name
InTmux == TMUX /\ TMUX_PANE

\* C13 (alert part): a cleanup that starts with the alert set and whose tmux
\* commands succeed leaves hasAlert false and the window name without the
\* alert prefix.
C13_CleanupClears ==
  [][(apc = "cleanup" /\ apc' # "off" /\ hasAlert /\ Succeeded(log'))
       => (~hasAlert' /\ ~Prefixed(windowName'))]_vars

\* C15: playSound sets the alert and invokes the sound player only after
\* isPaneActive reported false; after a report of true the handler ends with
\* hasAlert and the window name unchanged and no player invoked; the player
\* is invoked after setTmuxAlert has run, so that in tmux, when the commands
\* succeed, the window name carries the prefix when the player starts.
C15_Gated ==
  [][/\ (apc = "gate" /\ apc' # "off" /\ gate' = "active")
          => (apc' = "idle" /\ hasAlert' = hasAlert
              /\ windowName' = windowName /\ "player" \notin Calls(log'))
     /\ (apc = "gate" /\ apc' # "off" /\ gate' = "inactive")
          => (apc' = "alert" /\ "player" \notin Calls(log'))
     /\ (hasAlert' /\ ~hasAlert)
          => (apc = "alert" /\ gate = "inactive")
     /\ (Prefixed(windowName') /\ ~Prefixed(windowName))
          => (apc = "alert" /\ gate = "inactive")
     /\ ("player" \in Calls(log') /\ "player" \notin Calls(log))
          => /\ apc = "invoke"
             /\ gate = "inactive"
             /\ (InTmux /\ Succeeded(log)) => Prefixed(windowName)]_vars

\* a sound played from an inactive tmux pane: the probe, the rename, then
\* the player
C15_Witness ==
  /\ apc = "idle"
  /\ gate = "inactive"
  /\ hasAlert
  /\ log = <<"tmux-", "name", "rename", "player">>
  /\ windowName = ALERT_PREFIX \o <<"w">>

\* C16: playSoundAlways invokes the player with force and nothing else: no
\* focus probe runs, and hasAlert and the window name stay as they are.
C16_AlwaysFrame ==
  /\ [](handler \in Forced \cup {"startup"}
          => (log \in {<<>>, <<"playerForce">>} /\ gate = None /\ guard = None))
  /\ [][(apc = "always" /\ apc' # "off")
          => (log' = Append(log, "playerForce") /\ apc' = "idle"
              /\ hasAlert' = hasAlert /\ windowName' = windowName)]_vars

\* a preview played while the alert is set and the pane is not active
C16_Witness ==
  /\ handler = "preview"
  /\ apc = "idle"
  /\ log = <<"playerForce">>
  /\ hasAlert
  /\ Prefixed(windowName)
  /\ ~paneActive
  /\ ~frontmost

\* C17: when a handler's alert-clearing check runs with the alert set and
\* isPaneActive reports true (tmux commands succeeding), hasAlert is false
\* and the window name is without the prefix before the handler goes on to
\* its sound decision.
C17_ClearedOnReturn ==
  [][(apc = "guard" /\ apc' = "dispatch" /\ hasAlert /\ guard' = "active"
      /\ Succeeded(log'))
       => (~hasAlert' /\ ~Prefixed(windowName')
           /\ "player" \notin Calls(log'))]_vars

\* C18: after the ak command is handled in tmux (commands succeeding),
\* hasAlert is false and the window name does not carry the alert prefix.
C18_AckClears ==
  [][(apc = "dispatch" /\ handler \in {"event.ak", "event.tuiAk", "hook.ak"}
      /\ apc' = "idle" /\ InTmux /\ Succeeded(log'))
       => (~hasAlert' /\ ~Prefixed(windowName'))]_vars

\* C19: the window name never carries the prefix twice; setTmuxAlert with
\* the alert already set leaves the window name alone; and the
\* clearTmuxAlert that clears an alert gives the window the name it had
\* when the alert was set.
C19_Idempotent ==
  /\ [](~(Prefixed(windowName)
          /\ Prefixed(slice(windowName, Len(ALERT_PREFIX)))))
  /\ [][(apc = "alert" /\ apc' = "invoke" /\ hasAlert)
          => windowName' = windowName]_vars
  /\ [][(hasAlert /\ ~hasAlert' /\ apc \notin {"off", "exited"})
          => windowName' = nameBefore]_vars

\* C20: when a window id was captured and the WezTerm stage answers "not
\* frontmost", isPaneActive reports inactive and runs no further probe.
C20_ShortCircuit ==
  [][(apc \in {"guard", "gate"} /\ apc' # "off"
      /\ Len(log') > Len(log) /\ log'[Len(log) + 1] = "gui-")
       => /\ cachedWindowId # None
          /\ (apc = "guard" => guard' = "inactive")
          /\ (apc = "gate" => gate' = "inactive")
          /\ Len(log') = Len(log) + 1
          /\ Calls(log') \cap {"tmux+", "tmux-", "front+", "front-"}
               = Calls(log) \cap {"tmux+", "tmux-", "front+", "front-"}]_vars

\* the gate of playSound stopped at the WezTerm stage although the tmux pane
\* is the active one
C20_Witness ==
  /\ cachedWindowId # None
  /\ InTmux
  /\ paneActive
  /\ ~frontmost
  /\ apc = "alert"
  /\ gate = "inactive"
  /\ log = <<"gui-">>

\* C21: a probe whose command fails or times out answers "active" in every
\* stage it is reached in; when every command fails the focus check of
\* playSound reports active, no player is invoked, and hasAlert and the
\* window name stay as they were.
C21_FailActive ==
  gate # None =>
    /\ (cachedWindowId # None /\ wezTermThrows(world)) => log[1] = "gui+"
    /\ "frontApp" \in world.faults
         => Calls(log) \cap {"gui-", "front-"} = {}
    /\ "tmux" \in world.faults => "tmux-" \notin Calls(log)
    /\ world.faults = Commands
         => /\ gate = "active"
            /\ apc = "idle"
            /\ ~hasAlert
            /\ windowName = (IF TMUX THEN <<"w">> ELSE <<>>)
            /\ Calls(log) \cap {"player", "name", "rename"} = {}

\* every command fails although another application is frontmost and the
\* tmux pane is not the active one: both stages answer active
C21_Witness ==
  /\ world.faults = Commands
  /\ world.frontApp = <<"F", "i", "n", "d", "e", "r">>
  /\ world.paneFlag = "0"
  /\ gate = "active"
  /\ log = <<"gui+", "tmux+">>
  /\ apc = "idle"

\* the WezTerm stage finds the cached window to be the active one
WindowIsActive(w) ==
  /\ w.frontApp = <<"w", "e", "z", "t", "e", "r", "m", "-", "g", "u", "i">>
  /\ (w.ourTitle = None \/ w.focusedTitle = w.ourTitle)

\* tmux reports the session attached to one client, the window active and
\* the pane active
AllThreeHold(w) ==
  w.sessionAttached = "1" /\ w.windowActive = "1" /\ w.paneFlag = "1"

\* C22: when no command fails, isPaneActive reports: with a cached window,
\* inactive if the window is not the active one, else the tmux result inside
\* tmux and active outside; without a cached window inside tmux, the tmux
\* result; with neither, whether the frontmost application is on the
\* allow-list.  The tmux result (pane id known) is active exactly when the
\* three flags read 1, so only when all three hold.
C22_Decision ==
  (gate # None /\ world.faults = {}) =>
    LET multiplexer == ~TMUX_PANE \/ AllThreeHold(world)
        expected ==
          IF cachedWindowId # None
          THEN IF ~WindowIsActive(world) THEN FALSE
               ELSE IF TMUX THEN multiplexer ELSE TRUE
          ELSE IF TMUX THEN multiplexer
               ELSE world.frontApp \in TERMINAL_APPS IN
      /\ (gate = "active") = expected
      /\ "tmux+" \in Calls(log)
           => (world.sessionAttached # "0" /\ world.windowActive = "1"
               /\ world.paneFlag = "1")

\* the cached window is the active one and the tmux window is active, but
\* another pane of it is selected: the tmux stage decides, inactive
C22_Witness ==
  /\ world.faults = {}
  /\ cachedWindowId # None
  /\ TMUX
  /\ TMUX_PANE
  /\ WindowIsActive(world)
  /\ world.sessionAttached = "1"
  /\ world.windowActive = "1"
  /\ world.paneFlag = "0"
  /\ gate = "inactive"
  /\ log = <<"gui+", "tmux-">>

\* the document is JSON with the expected top-level key
WellFormed(doc, key) == doc.kind = "object" /\ doc.key = key

\* C23: no call of getTtyProfile, setTtyProfile, assignThemeToInstance or
\* removeInstance throws, whatever the two files contain; a file that is not
\* well-formed reads as empty; and a call that writes a file leaves it
\* well-formed.
C23_NeverRaises ==
  [][/\ ~outcome'.threw
     /\ (outcome'.op = "getTtyProfile" /\ ~WellFormed(ttyFile, "profiles"))
          => outcome'.value = None
     /\ outcome'.op = "setTtyProfile" => WellFormed(ttyFile', "profiles")
     /\ outcome'.op = "removeInstance" => WellFormed(instFile', "instances")
     /\ (outcome'.op = "assignThemeToInstance"
         /\ outcome'.value.source # "instance")
          => WellFormed(instFile', "instances")]_vars

\* C24: a setTtyProfile(tty, key) that returns is followed by
\* getTtyProfile(tty) = key and leaves what getTtyProfile returns for every
\* other terminal unchanged; the table removeInstance saves reads back as the
\* table it computed, and every well-formed file reads back unchanged after
\* being written again.
C24_RoundTrip ==
  /\ [][(outcome'.op = "setTtyProfile" /\ ~outcome'.threw) =>
          /\ getTtyProfile(ttyFile', outcome'.value[1])
               = [threw |-> FALSE, value |-> outcome'.value[2]]
          /\ \A other \in TtyIds \ {outcome'.value[1]} :
               getTtyProfile(ttyFile', other) = getTtyProfile(ttyFile, other)]_vars
  /\ [][(outcome'.op = "removeInstance" /\ ~outcome'.threw) =>
          loadState(instFile').map
            = removeInstance(loadState(instFile).map, outcome'.value)]_vars
  /\ [](WellFormed(instFile, "instances") =>
          loadState(JSONstringify("instances", loadState(instFile).map))
            = loadState(instFile))
  /\ [](WellFormed(ttyFile, "profiles") =>
          loadTtyProfiles(JSONstringify("profiles", loadTtyProfiles(ttyFile).map))
            = loadTtyProfiles(ttyFile))

\* term:A is mapped anew in a file that also maps term:B: the new key is
\* read back and the entry of term:B is still there
C24_Witness ==
  /\ outcome.op = "setTtyProfile"
  /\ ~outcome.threw
  /\ outcome.value = <<"term:A", "marine">>
  /\ getTtyProfile(ttyFile, "term:A").value = "marine"
  /\ getTtyProfile(ttyFile, "term:B").value = "marine"
  /\ instFile.kind = "object"
  /\ DOMAIN loadState(instFile).map = {2}

\* the newest modification time among the definition files, 0 without any
Newest ==
  CHOOSE m \in 0..MaxClock :
    LET D == {f \in FileNames : /\ themesDir.exists
                                /\ themesDir.files[f].present
                                /\ f[2] \in {".yaml", ".yml"}}
    IN /\ \A f \in D : themesDir.files[f].mtime <= m
       /\ (D = {} => m = 0)
       /\ (D # {} => \E f \in D : themesDir.files[f].mtime = m)

\* the step is a loadThemes call of a process without in-memory copy
FirstLoadStep ==
  ~cachedThemes.has /\ cachedThemes'.has /\ outcome'.op = "loadThemes"

\* the call took the map of the cache file and left the file alone
Trusts ==
  /\ outcome'.value = cacheFile.themes
  /\ cachedThemes' = Held(cacheFile.themes)
  /\ cacheFile' = cacheFile

\* the call built the map from the definition files and wrote it to the cache
Rebuilds ==
  LET built == loadAllThemesFromYaml(themesDir) IN
    /\ outcome'.value = built
    /\ cachedThemes' = Held(built)
    /\ cacheFile' = [kind |-> "json", version |-> CACHE_VERSION,
                     buildTime |-> clock, themes |-> built]

VersionOk == cacheFile.kind = "json" /\ cacheFile.version = CACHE_VERSION

\* C25 as stated: loadThemes in a process with no in-memory copy trusts the
\* cache exactly when its version is the expected one and its build timestamp
\* is greater than or equal to the newest modification time of the
\* definition files; otherwise it rebuilds and rewrites the cache.
C25_TrustAtLeast ==
  [][FirstLoadStep =>
       IF VersionOk /\ cacheFile.buildTime >= Newest THEN Trusts ELSE Rebuilds]_vars

\* C25, amended: loadThemes in a process with no in-memory copy trusts the
\* cache exactly when its version is the expected one and its build timestamp
\* is strictly greater than the newest modification time of the definition
\* files; in every other case, equality included, it rebuilds from the
\* definition files and rewrites the cache.
C25_TrustNewer ==
  [][FirstLoadStep =>
       IF VersionOk /\ cacheFile.buildTime > Newest
         THEN Trusts /\ outcome'.path = "cache"
         ELSE Rebuilds /\ outcome'.path = "yaml"]_vars

\* a process without in-memory copy has taken a cache that is newer than
\* every definition file, and the files would now build another map
C25_Witness ==
  /\ outcome.op = "loadThemes"
  /\ outcome.path = "cache"
  /\ VersionOk
  /\ cacheFile.buildTime > Newest
  /\ outcome.value = cacheFile.themes
  /\ outcome.value # loadAllThemesFromYaml(themesDir)


\* the step is a loadThemes call
LoadStep == outcome' # outcome /\ outcome'.op = "loadThemes"

\* the definition files that were modified after the cache was built
ModifiedSince ==
  {f \in FileNames : /\ themesDir.exists
                     /\ themesDir.files[f].present
                     /\ f[2] \in {".yaml", ".yml"}
                     /\ VersionOk
                     /\ cacheFile.buildTime < themesDir.files[f].mtime}

\* the map holds what file f holds now: its record under its stem when it is
\* a valid definition, nothing under its stem otherwise
Reflects(map, f) ==
  LET t == loadThemeFromYaml(themesDir.files[f].content) IN
    IF t.ok THEN f[1] \in DOMAIN map /\ map[f[1]] = t.theme
    ELSE f[1] \notin DOMAIN map

\* C26 as stated: if a definition file was modified after the cache was
\* built, a subsequent loadThemes call returns the updated file content, not
\* the cached content.
C26_Invalidates ==
  [][LoadStep => \A f \in ModifiedSince : Reflects(outcome'.value, f)]_vars

\* C26, amended: if a definition file was modified after the cache was built,
\* a subsequent loadThemes call made by a process that holds no in-memory
\* copy returns the map built from the definition files as they are, the
\* updated file included, and not the cached content.
C26_InvalidatesOnDisk ==
  [][(LoadStep /\ ~cachedThemes.has /\ ModifiedSince # {})
       => /\ \A f \in ModifiedSince : Reflects(outcome'.value, f)
          /\ outcome'.value = loadAllThemesFromYaml(themesDir)
          /\ outcome'.path = "yaml"]_vars

\* a process without in-memory copy found a cache of the right version, older
\* than a definition file and holding another map than the files, and
\* returned the map of the files
C26_Witness ==
  /\ outcome.op = "loadThemes"
  /\ outcome.path = "yaml"
  /\ outcome.read.cache.ok
  /\ outcome.read.cache.buildTime < outcome.read.themesModTime
  /\ outcome.value # outcome.read.cache.themes
  /\ outcome.value = loadAllThemesFromYaml(themesDir)
  /\ DOMAIN outcome.value # {}


\* the step is a reloadThemes call
ReloadStep ==
  /\ outcome'.op = "reloadThemes"
  /\ \/ outcome' # outcome
     \/ /\ cacheFile' # cacheFile
        /\ cacheFile'.kind = "json"
        /\ cacheFile'.version = CACHE_VERSION

\* C27: within one process every loadThemes call after the first returns the
\* map of the first call, whatever happened to the definition files and to
\* the cache file in between; only reloadThemes changes what later calls
\* return, and after reloadThemes the in-memory copy and the cache file both
\* hold the map built from the definition files as they are.
C27_FirstLoadWins ==
  /\ [](outcome.op = "loadThemes"
          => (firstLoad.has /\ outcome.value = firstLoad.themes))
  /\ [][(firstLoad.has /\ firstLoad' # firstLoad)
          => (~firstLoad'.has \/ ReloadStep)]_vars
  /\ [][(LoadStep /\ cachedThemes.has)
          => /\ outcome'.value = cachedThemes.themes
             /\ UNCHANGED <<cachedThemes, cacheFile>>]_vars
  /\ [][ReloadStep
          => LET built == loadAllThemesFromYaml(themesDir) IN
               /\ outcome'.value = built
               /\ cachedThemes' = Held(built)
               /\ cacheFile'.kind = "json"
               /\ cacheFile'.version = CACHE_VERSION
               /\ cacheFile'.themes = built]_vars

\* a later loadThemes call returned the map of the first call although the
\* definition files would build another map and the cache file is gone
C27_Witness ==
  /\ outcome.op = "loadThemes"
  /\ outcome.path = "memory"
  /\ outcome.value = firstLoad.themes
  /\ outcome.value # loadAllThemesFromYaml(themesDir)
  /\ cacheFile.kind = "missing"


\* the definition files of the directory that hold a mapping with a
\* non-empty name and a sounds section
ValidFiles ==
  {f \in FileNames :
     /\ themesDir.exists
     /\ themesDir.files[f].present
     /\ f[2] \in {".yaml", ".yml"}
     /\ themesDir.files[f].content.kind = "map"
     /\ "name" \in DOMAIN themesDir.files[f].content.data
     /\ themesDir.files[f].content.data.name # ""
     /\ "sounds" \in DOMAIN themesDir.files[f].content.data}

\* the map holds one record for each valid file, under the stem of the file,
\* with the name and the sounds the file gives, and nothing else
ExactlyTheValid(map) ==
  /\ DOMAIN map = {f[1] : f \in ValidFiles}
  /\ \A f \in ValidFiles :
       LET d == themesDir.files[f].content.data IN
         /\ map[f[1]].name = d.name
         /\ \A k \in DOMAIN d.sounds : map[f[1]].sounds[k] = d.sounds[k]
         /\ DOMAIN map[f[1]].sounds = {"announce", "question", "idle", "error"}

\* the step is a call that built the map from the definition files
BuildStep == (LoadStep \/ ReloadStep) /\ outcome'.path = "yaml"

\* C28: a build of the Theme Store from the definition files returns exactly
\* the records of the files that have both a name and a sounds section, keyed
\* by filename stem: a file that lacks either, or that is malformed, is
\* absent from getThemeNames() and does not keep the other files from
\* loading; a missing directory yields the empty map.
C28_BuildSkipsInvalid ==
  /\ [](ExactlyTheValid(loadAllThemesFromYaml(themesDir)))
  /\ [](~themesDir.exists => loadAllThemesFromYaml(themesDir) = EmptyMap)
  /\ [][BuildStep
          => /\ ExactlyTheValid(outcome'.value)
             /\ getThemeNames(cachedThemes', cacheFile', themesDir, clock)
                  = {f[1] : f \in ValidFiles}]_vars

\* a build has returned the two valid records of a directory that also holds
\* a file without sounds section
C28_Witness ==
  /\ outcome.op \in {"loadThemes", "reloadThemes"}
  /\ outcome.path = "yaml"
  /\ themesDir.exists
  /\ themesDir.files[<<"broken", ".yaml">>].present
  /\ themesDir.files[<<"broken", ".yaml">>].content = NoSounds
  /\ outcome.value = loadAllThemesFromYaml(themesDir)
  /\ DOMAIN outcome.value = {"marine", "ghost"}


\* the step is the plugin function of a process that finds no theme
EmptyStart == plugin.pos = "off" /\ plugin'.pos # "off" /\ themes = {}

\* C29: if the Theme Store holds no theme at plugin start, the feature is
\* disabled for that process: the start registers no Instance Record, writes
\* no TTY->Profile mapping, returns no event or tool hook and installs no
\* cleanup, and as long as the process lives no sound is played and the two
\* files stay as they were.
C29_Disabled ==
  /\ [][EmptyStart
          => /\ plugin'.pos = "disabled"
             /\ plugin'.hooks = {}
             /\ plugin'.handlers = {}
             /\ plugin'.played = {}
             /\ plugin'.currentThemeKey = None
             /\ UNCHANGED <<instFile, ttyFile>>]_vars
  /\ [][(plugin.pos = "disabled" /\ themes = {})
          => /\ plugin'.hooks = {}
             /\ plugin'.played = {}
             /\ UNCHANGED <<instFile, ttyFile>>]_vars
  /\ [](themes = {} => plugin.played = {} /\ plugin.hooks = {})

\* a process that found no theme is disabled, in a terminal for which no
\* mapping exists and with no record in the Instance Table
C29_Witness ==
  /\ themes = {}
  /\ plugin.pos = "disabled"
  /\ plugin.tty = "term:A"
  /\ ttyFile = JsonObject("profiles", <<>>)
  /\ instFile = JsonObject("instances", <<>>)

\* the step is a switchTheme call
SwitchStep ==
  /\ outcome'.op = "switchTheme"
  /\ \/ outcome.op # "switchTheme"
     \/ outcome'.threw # outcome.threw
     \/ outcome'.value # outcome.value
     \/ plugin'.currentThemeKey # plugin.currentThemeKey
     \/ ttyFile' # ttyFile

\* C30: switching to a key that is not in the Theme Store reports failure to
\* the caller and leaves the current theme, the TTY->Profile mapping and the
\* Instance Table unchanged and plays no sound.
C30_UnknownKeyRejected ==
  [][(SwitchStep /\ outcome'.value.key \notin themes)
       => /\ ~outcome'.threw
          /\ outcome'.value.success = FALSE
          /\ plugin'.currentThemeKey = plugin.currentThemeKey
          /\ plugin'.played = plugin.played
          /\ UNCHANGED <<ttyFile, instFile>>]_vars


\* C31: any two getTtyIdentifier calls made under the same environment
\* variables and the same attached terminal return the same identifier,
\* including when the start-time probe of the multiplexer succeeds in one
\* call and fails in the other.
C31_SameIdentifier ==
  \A i, j \in 1..Len(ident.ids) :
    ident.ids[i].tty = ident.ids[j].tty => ident.ids[i].id = ident.ids[j].id


\* the events and the tool hook that may ask for a sound, with the category
\* of each
SoundTriggers ==
  {<<"session.idle", "idle">>, <<"permission.asked", "question">>,
   <<"session.error", "error">>, <<"tool.question", "question">>}

\* an idle sound of the theme that the draw selects is a file of the sounds
\* directory
IdleSoundAt(r) ==
  /\ Len(hook.theme.idle.items) > 0
  /\ hook.theme.idle.items[((r - 1) % Len(hook.theme.idle.items)) + 1]
       \in hook.files

\* C32: the handlers request a gated sound only for session.idle (idle
\* category), permission.asked (question), session.error (error) and the
\* question tool (question); a session.idle event of a session that has a
\* parent never leads to a request; when the session lookup fails, the idle
\* sound is requested as for a session without parent.
C32_Triggers ==
  /\ hook.request # NoRequest
       => /\ <<hook.request.event, hook.request.category>> \in SoundTriggers
          /\ hook.request.file \in hook.files
          /\ hook.request.event = "tool.question"
               <=> (hook.last.hook = "tool.execute.before"
                    /\ hook.last.type \in {"question", "mcp_question"})
          /\ hook.last.hook = "event" => hook.request.event = hook.last.type
  /\ (hook.last.hook = "event" /\ hook.last.type = "session.idle"
        /\ hook.last.session = "child")
       => hook.request = NoRequest
  /\ (hook.last.hook = "event" /\ hook.last.type = "session.idle"
        /\ hook.last.session \in {"throws", "absent", "root", "nodata"})
       => IF IdleSoundAt(hook.last.pick)
          THEN /\ hook.request.category = "idle"
               /\ hook.request.file \in
                    {hook.theme.idle.items[i] : i \in 1..Len(hook.theme.idle.items)}
          ELSE hook.request = NoRequest

\* the lookup of the session of a session.idle event failed and the idle
\* sound was requested
C32_Witness ==
  /\ hook.pos = "on"
  /\ hook.last.hook = "event"
  /\ hook.last.type = "session.idle"
  /\ hook.last.session = "throws"
  /\ hook.request.category = "idle"
  /\ hook.request.file = "idle1.mp3"


\* C33: in every reachable state the theme recorded in the Instance Record of
\* a running process is the theme the process uses to pick its sounds, after
\* its start and after every successful sfx_change_theme.
C33_RecordIsCurrent ==
  (/\ plugin.pos = "running"
   /\ \/ outcome.op = "OpenCodeSFX"
      \/ outcome.op = "switchTheme" /\ ~outcome.threw /\ outcome.value.success)
    => LET st == loadState(instFile) IN
         /\ ~lacks(st, "instances")
         /\ Self \in DOMAIN st.map
         /\ st.map[Self].theme = plugin.currentThemeKey


\* C34: whenever the Theme Store is non-empty, the theme key returned by
\* assignThemeToInstance is a key of the Theme Store, for every source, the
\* record found under the pid of the caller included.
C34_ReturnsStoreKey ==
  (outcome.op = "assignThemeToInstance" /\ ~outcome.threw /\ themes # {})
    => outcome.value.theme \in themes


\* determineProfile is between its first line and its return
inDetermine(p) == pc[p] \in {"determine", "random", "setTty", "saveTty"}

\* a step in which determineProfile of p returns from an override tier
OverrideStep(p) ==
  /\ pc[p] = "determine"
  /\ pc'[p] = "register"
  /\ profile'[p].source \in {"env", "file", "tty"}

\* C35: a determineProfile that resolves from the env override, the
\* directory file or the TTY mapping writes neither the TTY->Profile Mapping
\* nor the Instance Table; no step of determineProfile writes the Instance
\* Table, and the mapping is written only by the random tier, which sets
\* the entry of the caller's own TTY Identifier to the theme it drew and
\* leaves every other entry of the document it loaded as it was.
C35_OverrideTiersWriteNothing ==
  [][/\ \A p \in Pids :
          /\ OverrideStep(p) => ttyProfiles' = ttyProfiles /\ instances' = instances
          /\ (inDetermine(p) /\ pc'[p] # pc[p]) => instances' = instances
     /\ ttyProfiles' # ttyProfiles =>
          \E p \in Pids :
            /\ pc[p] = "saveTty"
            /\ pc'[p] = "register"
            /\ profile[p].source = "random"
            /\ currentTty[p] # None
            /\ Lookup(ttyProfiles', currentTty[p]) = profile[p].theme
            /\ \A t \in (TtyIds \cup DOMAIN data[p]) \ {currentTty[p]} :
                 Lookup(ttyProfiles', t) = Lookup(data[p], t)]_vars

\* one process has resolved from the TTY mapping an entry that the random
\* tier of an earlier process wrote
C35_Witness ==
  \E p \in Pids :
    /\ pc[p] = "register"
    /\ profile[p].source = "tty"
    /\ currentTty[p] \in DOMAIN ttyProfiles
    /\ ttyProfiles[currentTty[p]] = profile[p].theme
    /\ \E q \in Pids \ {p} :
         result[q] = [theme |-> profile[p].theme, source |-> "random"]


\* C36: for an instance inside tmux, after a handler (an event, a tool
\* call or an acknowledge) whose tmux commands succeeded has returned,
\* hasAlert is true exactly when the window name carries the alert prefix;
\* this includes a window whose name carried the prefix before the instance
\* first set an alert (left by a killed process).
C36_AlertMatchesName ==
  (InTmux /\ apc = "idle" /\ handler # "startup" /\ Succeeded(log))
    => (hasAlert <=> Prefixed(windowName))


\* C37: after any sequence of adding, modifying and deleting definition
\* files, a loadThemes call of a process without in-memory copy returns
\* exactly the valid definition files present at that moment; it never
\* returns a theme whose definition file has been deleted.
C37_FreshLoadIsCurrent ==
  [][FirstLoadStep => ExactlyTheValid(outcome'.value)]_vars


\* p runs, its record is in the persisted table, and q is another process
\* whose call did not overlap a call of p
RunsBeside(p, q) ==
  /\ p # q
  /\ pc[p] = "running"
  /\ pc'[p] = "running"
  /\ p \in DOMAIN instances
  /\ {p, q} \notin overlap'

\* C38: stale eviction never removes the Instance Record of a process that
\* is still running, however long it has run: the pass of another process
\* keeps the record in the table it loaded and will save, and the theme of
\* the record is not drawn by the random tier of the other process while
\* another theme is free.
C38_RunningKeepsRecord ==
  [][\A p, q \in Pids :
       RunsBeside(p, q) =>
         /\ (pc[q] = "init" /\ pc'[q] = "determine") => p \in DOMAIN state'[q]
         /\ (pc[q] = "random" /\ pc'[q] \in {"setTty", "register"}
               /\ themes \ usedThemes(instances) # {})
              => profile'[q].theme # instances[p].theme]_vars


\* p and q sit in different terminals and both took the random tier; p has
\* written the entry of its terminal
BothRandom(p, q) ==
  /\ p # q
  /\ pc[p] = "register"
  /\ profile[p].source = "random"
  /\ profile[q].source = "random"
  /\ currentTty[p] # None
  /\ currentTty[q] # None
  /\ currentTty[p] # currentTty[q]

\* C39: two processes in different terminals that both take the random tier
\* can interleave so that the setTtyProfile of one overwrites that of the
\* other: when q saves a document it loaded before p wrote its entry, the
\* entry of p is gone from the TTY->Profile Mapping after both have saved;
\* and a process that finds no valid entry for its terminal never takes the
\* theme from the mapping.
C39_LostUpdate ==
  /\ [][\A p, q \in Pids :
          (/\ BothRandom(p, q)
           /\ pc[q] = "saveTty"
           /\ pc'[q] = "register"
           /\ Lookup(ttyProfiles, currentTty[p]) = profile[p].theme
           /\ Lookup(data[q], currentTty[p]) # profile[p].theme)
            => /\ Lookup(ttyProfiles', currentTty[p]) = Lookup(data[q], currentTty[p])
               /\ Lookup(ttyProfiles', currentTty[p]) # profile[p].theme
               /\ Lookup(ttyProfiles', currentTty[q]) = profile[q].theme]_vars
  /\ [](\A r \in Pids :
          (pc[r] = "register" /\ profile[r].source = "tty")
            => ttyProfile[r] \in themes /\ profile[r].theme = ttyProfile[r])

\* both processes have saved and the mapping has no entry for the terminal
\* of one of them
C39_Witness ==
  \E p, q \in Pids :
    /\ BothRandom(p, q)
    /\ pc[q] = "register"
    /\ currentTty[p] \notin DOMAIN ttyProfiles
    /\ DOMAIN ttyProfiles = {currentTty[q]}
    /\ ttyProfiles[currentTty[q]] = profile[q].theme


====
